---- MODULE Spec2Model ----
(***************************************************************************)
(* A model of the workout-notation parser of training-tracker              *)
(* (src/src/lib/parsers/mod.ts), of stringifySession and of the cached     *)
(* statistics (src/src/lib/statistics/dataProcessor.ts).  Text is a        *)
(* sequence of one-character strings; every regular expression of the      *)
(* source is an operator that computes the match the JavaScript engine     *)
(* computes (leftmost, greedy or lazy as written).                         *)
(***************************************************************************)
EXTENDS Integers, Sequences, FiniteSets, TLC

VARIABLES
    content,         \* parseContent: the document handed to the parser
    pc,              \* position in parseContent / parseSession
    lines,           \* parseContent: content.split('\n')
    ci,              \* parseContent: its loop index i (0-based)
    sections,        \* parseContent: the closed chunks
    currentSection,  \* parseContent: the lines of the open chunk
    todo,            \* parseContent: chunks kept by the filter, still to parse
    sessions,        \* parseContent: the sessions produced so far
    sLines,          \* parseSession: sessionText.split('\n')
    si,              \* parseSession: its loop index i (0-based)
    session,         \* parseSession: the session under construction
    currentExercise, \* parseSession: index into session.exercises, 0 = null
    inListMode,      \* parseSession
    listItems,       \* parseSession: pending list items
    visits,          \* parseSession: iterations of the line loop so far
    input,           \* how content was written (read by no action)
    uniqueExercisesCache,  \* dataProcessor: key -> entry of getUniqueExercises
    exerciseProgressCache, \* dataProcessor: key -> entry of extractExerciseProgress
    completionStatsCache,  \* dataProcessor: key -> entry of calculateCompletionStats
    volumeBySessionCache,  \* dataProcessor: key -> entry of calculateVolumeBySession
    now,             \* Date.now(), in ms
    call,            \* the last call of a statistics function and its outcome
    calls,           \* the calls made so far
    stored           \* per function and key, when a result was last stored
                     \* since the caches were last cleared (read by no action)

parserVars ==
    <<content, pc, lines, ci, sections, currentSection, todo, sessions,
      sLines, si, session, currentExercise, inListMode, listItems, visits,
      input>>

statsVars ==
    <<uniqueExercisesCache, exerciseProgressCache, completionStatsCache,
      volumeBySessionCache, now, call, calls, stored>>

vars == <<parserVars, statsVars>>

\* a call that was never made
NoCall == [fn |-> "none"]

\* lines 44-47: the module is loaded, the caches are empty
StatsIdle ==
    /\ uniqueExercisesCache = <<>>
    /\ exerciseProgressCache = <<>>
    /\ completionStatsCache = <<>>
    /\ volumeBySessionCache = <<>>
    /\ now = 0
    /\ call = NoCall
    /\ calls = 0
    /\ stored = [unique |-> <<>>, progress |-> <<>>, completion |-> <<>>,
                 volume |-> <<>>]

-----------------------------------------------------------------------------
(* Characters and strings                                                  *)

Digit == {"0", "1", "2", "3", "4", "5", "6", "7", "8", "9"}

Lower == {"a", "b", "c", "d", "e", "f", "g", "h", "i", "j", "k", "l", "m",
          "n", "o", "p", "q", "r", "s", "t", "u", "v", "w", "x", "y", "z"}

\* \s of a JavaScript regular expression, and what String.trim removes
WS == {" ", "\t", "\r", "\n"}

\* the characters that . does not match
LineTerm == {"\r", "\n"}

StateLetter == {"A", "B", "C"}

\* the value of an absent property or an unmatched group
undefined == <<"undefined">>

\* the null of Effort.load
null == [null |-> TRUE]

Min(S) == CHOOSE x \in S : \A y \in S : x <= y

Sub(s, a, b) == IF a > b THEN <<>> ELSE SubSeq(s, a, b)

AllIn(s, C) == \A p \in DOMAIN s : s[p] \in C

NoneIn(s, C) == \A p \in DOMAIN s : s[p] \notin C

\* String.prototype.trim
Trim(s) ==
    LET keep == {p \in DOMAIN s : s[p] \notin WS}
    IN  IF keep = {} THEN <<>>
        ELSE Sub(s, Min(keep), CHOOSE x \in keep : \A y \in keep : y <= x)

\* String.prototype.startsWith
StartsWith(s, p) == Len(s) >= Len(p) /\ Sub(s, 1, Len(p)) = p

\* String.prototype.indexOf, 1-based, 0 when absent
IndexOf(s, p) ==
    LET at == {q \in 1..(Len(s) - Len(p) + 1) : Sub(s, q, q + Len(p) - 1) = p}
    IN  IF at = {} THEN 0 ELSE Min(at)

\* String.prototype.includes
Includes(s, p) == IndexOf(s, p) # 0

\* String.prototype.split with a one-character separator
RECURSIVE Split(_, _)
Split(s, ch) ==
    LET at == IndexOf(s, <<ch>>)
    IN  IF at = 0 THEN <<s>>
        ELSE <<Sub(s, 1, at - 1)>> \o Split(Sub(s, at + 1, Len(s)), ch)

\* Array.prototype.join with a one-character separator
RECURSIVE Join(_, _)
Join(ss, ch) ==
    IF ss = <<>> THEN <<>>
    ELSE IF Len(ss) = 1 THEN ss[1]
    ELSE ss[1] \o <<ch>> \o Join(Tail(ss), ch)

\* .map(s => s.trim())
RECURSIVE MapTrim(_)
MapTrim(ss) == IF ss = <<>> THEN <<>> ELSE <<Trim(ss[1])>> \o MapTrim(Tail(ss))

\* .filter(Boolean) on strings: the empty string is dropped
RECURSIVE FilterNonEmpty(_)
FilterNonEmpty(ss) ==
    IF ss = <<>> THEN <<>>
    ELSE (IF ss[1] = <<>> THEN <<>> ELSE <<ss[1]>>) \o FilterNonEmpty(Tail(ss))

\* String.prototype.replace(pattern string, ''): the first occurrence is removed
RemoveFirst(s, p) ==
    LET at == IndexOf(s, p)
    IN  IF at = 0 THEN s ELSE Sub(s, 1, at - 1) \o Sub(s, at + Len(p), Len(s))

DigitVal(c) ==
    CASE c = "0" -> 0 [] c = "1" -> 1 [] c = "2" -> 2 [] c = "3" -> 3
      [] c = "4" -> 4 [] c = "5" -> 5 [] c = "6" -> 6 [] c = "7" -> 7
      [] c = "8" -> 8 [] c = "9" -> 9

\* parseInt of a string of digits
RECURSIVE DigitsVal(_)
DigitsVal(ds) ==
    IF ds = <<>> THEN 0
    ELSE 10 * DigitsVal(Sub(ds, 1, Len(ds) - 1)) + DigitVal(ds[Len(ds)])

\* the longest prefix of s made of characters of C
RECURSIVE Run(_, _)
Run(s, C) ==
    IF s = <<>> \/ s[1] \notin C THEN <<>> ELSE <<s[1]>> \o Run(Tail(s), C)

\* the longest prefix of s made of characters outside C
RECURSIVE RunNot(_, _)
RunNot(s, C) ==
    IF s = <<>> \/ s[1] \in C THEN <<>> ELSE <<s[1]>> \o RunNot(Tail(s), C)

\* parseInt(s) || 0: leading white space, an optional sign, then digits;
\* NaN (no digit there) and 0 both give 0
ParseIntOr0(s) ==
    LET t    == Sub(s, Len(Run(s, WS)) + 1, Len(s))
        neg  == t # <<>> /\ t[1] = "-"
        u    == IF t # <<>> /\ t[1] \in {"-", "+"} THEN Tail(t) ELSE t
        ds   == Run(u, Digit)
    IN  IF ds = <<>> THEN 0 ELSE IF neg THEN 0 - DigitsVal(ds) ELSE DigitsVal(ds)

-----------------------------------------------------------------------------
(* The regular expressions of parseEffort                                  *)

\* the first position of s that holds a character of C, 0 when there is none
FirstIn(s, C) ==
    LET at == {p \in DOMAIN s : s[p] \in C}
    IN  IF at = {} THEN 0 ELSE Min(at)

After(s, p) == Sub(s, p + 1, Len(s))

\* /(\d+)(min|s)(\d+)?(s)?/ : the leftmost run of digits that "min" or "s"
\* follows; group 3 is the run of digits after the unit, undefined when empty
TimeMatch(s) ==
    LET unitAt(p) == p + Len(Run(Sub(s, p, Len(s)), Digit))
        at == {p \in DOMAIN s :
                  /\ s[p] \in Digit
                  /\ \/ StartsWith(Sub(s, unitAt(p), Len(s)), <<"m", "i", "n">>)
                     \/ StartsWith(Sub(s, unitAt(p), Len(s)), <<"s">>)}
    IN  IF at = {} THEN [ok |-> FALSE]
        ELSE LET p    == Min(at)
                 u    == unitAt(p)
                 m2   == IF StartsWith(Sub(s, u, Len(s)), <<"m", "i", "n">>)
                         THEN "min" ELSE "s"
                 rest == Sub(s, u + (IF m2 = "min" THEN 3 ELSE 1), Len(s))
                 d3   == Run(rest, Digit)
             IN  [ok |-> TRUE, m1 |-> Sub(s, p, u - 1), m2 |-> m2,
                  m3 |-> IF d3 = <<>> THEN undefined ELSE d3]

\* a TimeSeconds that forgets the minutes
SecondsOnly(timeMatch) ==
    IF timeMatch.m3 # undefined THEN DigitsVal(timeMatch.m3)
    ELSE IF timeMatch.m2 = "s" THEN DigitsVal(timeMatch.m1) ELSE 0

\* minutes * 60 + seconds of a time match (three copies in the source)
TimeSeconds(timeMatch) ==
    LET minutes == IF timeMatch.m2 = "min" THEN DigitsVal(timeMatch.m1) ELSE 0
        seconds == IF timeMatch.m3 # undefined THEN DigitsVal(timeMatch.m3)
                   ELSE IF timeMatch.m2 = "s" THEN DigitsVal(timeMatch.m1) ELSE 0
    IN  minutes * 60 + seconds

\* /([ABC])(\d*[a-z0-9]*)?/ : the first state letter and the run of lower-case
\* letters and digits behind it
StateMatch(s) ==
    LET p == FirstIn(s, StateLetter)
    IN  IF p = 0 THEN [ok |-> FALSE]
        ELSE LET v == Run(After(s, p), Digit \cup Lower)
             IN  [ok |-> TRUE, m0 |-> <<s[p]>> \o v, m1 |-> s[p], m2 |-> v]

\* /^\s*\/\s+([ABC])(\d*[a-z0-9]*)?/
RepeatWithStateMatch(s) ==
    LET a == After(s, Len(Run(s, WS)))
        b == IF a = <<>> THEN <<>> ELSE Tail(a)
        w == Run(b, WS)
        c == After(b, Len(w))
    IN  IF a # <<>> /\ a[1] = "/" /\ w # <<>> /\ c # <<>> /\ c[1] \in StateLetter
        THEN [ok |-> TRUE, m1 |-> c[1], m2 |-> Run(Tail(c), Digit \cup Lower)]
        ELSE [ok |-> FALSE]

\* /(\d+)(?:kg)?/ : the first run of digits
LoadMatch(s) ==
    LET p == FirstIn(s, Digit)
    IN  IF p = 0 THEN [ok |-> FALSE]
        ELSE [ok |-> TRUE, m1 |-> Run(Sub(s, p, Len(s)), Digit)]

\* /^(.*?)\s*([ABC])(.*)$/ : the shortest prefix after which, white space
\* skipped, a state letter stands; . matches no line terminator
CompletionMatch(s) ==
    LET letterAt(q) == q + Len(Run(After(s, q), WS)) + 1
        at == {q \in 0..Len(s) :
                  /\ NoneIn(Sub(s, 1, q), LineTerm)
                  /\ letterAt(q) <= Len(s)
                  /\ s[letterAt(q)] \in StateLetter
                  /\ NoneIn(After(s, letterAt(q)), LineTerm)}
    IN  IF at = {} THEN [ok |-> FALSE]
        ELSE LET q == Min(at)
             IN  [ok |-> TRUE, m1 |-> Sub(s, 1, q), m2 |-> s[letterAt(q)],
                  m3 |-> After(s, letterAt(q))]

\* filter(c => /^\d+$/.test(c)).reduce((sum, c) => sum + parseInt(c), 0)
RECURSIVE SumNumeric(_)
SumNumeric(cs) ==
    IF cs = <<>> THEN 0
    ELSE (IF cs[1] # <<>> /\ AllIn(cs[1], Digit) THEN DigitsVal(cs[1]) ELSE 0)
         + SumNumeric(Tail(cs))

IsNumeric(s) == s # <<>> /\ AllIn(s, Digit)

-----------------------------------------------------------------------------
(* parseEffort                                                             *)

Reps(count, state) == [type |-> "reps", count |-> count, state |-> state]

Time(value, unit, state) ==
    [type |-> "time", duration |-> [value |-> value, unit |-> unit],
     state |-> state]

\* an effort; isRepeat is absent (falsy) on the efforts built without it
Effort(load, res, isRepeat) ==
    [load |-> load, result |-> res, isRepeat |-> isRepeat]

Load(value, unit) == [value |-> value, unit |-> unit]

\* lines 463-537: a repeat marker that carries a state, "/ C7"
RepeatWithState(m, target) ==
    LET state == m.m1
        completionValue == m.m2
        timeMatch == TimeMatch(completionValue)
        res ==
            IF state = "C" /\ IsNumeric(completionValue)
            THEN IF target.type = "time"
                 THEN Time(DigitsVal(completionValue), "s", state)
                 ELSE Reps(DigitsVal(completionValue), state)
            ELSE IF \/ (state = "C" /\ Includes(completionValue, <<"s">>))
                    \/ Includes(completionValue, <<"m", "i", "n">>)
            THEN IF timeMatch.ok
                 THEN Time(TimeSeconds(timeMatch), "s", state)
                 ELSE IF target.type = "time" THEN Time(0, "s", state)
                      ELSE Reps(0, state)
            ELSE IF target.type = "time"
                 THEN Time(target.duration.value, target.duration.unit, state)
                 ELSE Reps(target.count, state)
    IN  <<Effort(null, res, TRUE)>>

\* lines 539-555: the bare repeat marker "/"
BareRepeat(target) ==
    <<Effort(null,
             IF target.type = "time"
             THEN Time(0, IF target.duration.unit = "" THEN "s"
                          ELSE target.duration.unit, "")
             ELSE Reps(0, ""),
             TRUE)>>

\* lines 596-604: the load of one resistance of a drop set with a state letter
DropLoad(resistance) ==
    LET loadMatch == LoadMatch(resistance)
    IN  IF loadMatch.ok THEN Load(DigitsVal(loadMatch.m1), "kg") ELSE null

\* lines 606-667: the result of resistance number n (0-based) of a drop set
DropResult(n, nResistances, completions, remainingReps, state) ==
    IF n < Len(completions)
    THEN LET completion == completions[n + 1]
             timeMatch == TimeMatch(completion)
         IN  IF IsNumeric(completion) THEN Reps(DigitsVal(completion), state)
             ELSE IF \/ Includes(completion, <<"m", "i", "n">>)
                     \/ Includes(completion, <<"s">>)
             THEN IF timeMatch.ok THEN Time(TimeSeconds(timeMatch), "s", state)
                  ELSE Reps(0, state)
             ELSE Reps(0, state)
    ELSE IF /\ n = nResistances - 1
            /\ Len(completions) < nResistances
            /\ remainingReps > 0
    THEN Reps(remainingReps, state)
    ELSE Reps(0, state)

\* a RemainingReps that subtracts nothing
WholeTarget(target, completions) ==
    IF target.type = "reps" THEN target.count ELSE 0

\* lines 583-590
RemainingReps(target, completions) ==
    IF target.type = "reps" THEN target.count - SumNumeric(completions) ELSE 0

\* lines 562-675: a drop set with a state letter
DropSetWithCompletion(m, target) ==
    LET resistancePart == m.m1
        state == m.m2
        completionPart == m.m3
        resistances == FilterNonEmpty(MapTrim(Split(resistancePart, "/")))
        completions ==
            IF Includes(completionPart, <<"/">>)
            THEN FilterNonEmpty(MapTrim(Split(completionPart, "/")))
            ELSE IF completionPart # <<>> THEN <<Trim(completionPart)>>
            ELSE <<>>
        remainingReps == RemainingReps(target, completions)
    IN  [n \in 1..Len(resistances) |->
            Effort(DropLoad(resistances[n]),
                   DropResult(n - 1, Len(resistances), completions,
                              remainingReps, state),
                   FALSE)]

\* lines 676-707: a drop set without a state letter (no A, B or C anywhere,
\* so the state of every effort is '')
DropSetPlain(effortStr) ==
    LET resistances == FilterNonEmpty(MapTrim(Split(effortStr, "/")))
        load(resistance) ==
            LET loadMatch == LoadMatch(resistance)
            IN  IF loadMatch.ok
                THEN Load(DigitsVal(loadMatch.m1),
                          IF Includes(resistance, <<"k", "g">>) THEN "kg" ELSE "")
                ELSE null
        state(resistance) ==
            LET stateMatch == StateMatch(resistance)
            IN  IF stateMatch.ok THEN stateMatch.m1 ELSE ""
    IN  [n \in 1..Len(resistances) |->
            Effort(load(resistances[n]), Reps(0, state(resistances[n])), FALSE)]

\* a PlainResult that reads the suffix of every state letter
SuffixResult(state, completionValue, target) ==
    IF completionValue # <<>> /\ TimeMatch(completionValue).ok
    THEN Time(TimeSeconds(TimeMatch(completionValue)), "s", state)
    ELSE IF IsNumeric(completionValue)
    THEN IF target.type = "time" THEN Time(DigitsVal(completionValue), "s", state)
         ELSE Reps(DigitsVal(completionValue), state)
    ELSE IF target.type = "time"
    THEN Time(target.duration.value, target.duration.unit, state)
    ELSE Reps(target.count, state)

\* lines 734-849: the result of a plain single effort
PlainResult(state, completionValue, target) ==
    LET timeMatch == TimeMatch(completionValue)
    IN  IF state = "C" /\ completionValue # <<>> /\ timeMatch.ok
        THEN Time(TimeSeconds(timeMatch), "s", state)
        ELSE IF state \in {"A", "B"}
        THEN IF target.type = "reps" THEN Reps(target.count, state)
             ELSE Time(target.duration.value, target.duration.unit, state)
        ELSE IF target.type = "time"
        THEN IF state = "C" /\ IsNumeric(completionValue)
             THEN Time(DigitsVal(completionValue), "s", state)
             ELSE Time(0, target.duration.unit, state)
        ELSE Reps(IF state = "C" /\ IsNumeric(completionValue)
                  THEN DigitsVal(completionValue) ELSE 0, state)

\* lines 710-852: a plain single effort
PlainEffort(effortStr, target) ==
    LET stateMatch == StateMatch(effortStr)
        state == IF stateMatch.ok THEN stateMatch.m1 ELSE ""
        completionValue == IF stateMatch.ok THEN stateMatch.m2 ELSE <<>>
        rest == IF stateMatch.ok THEN Trim(RemoveFirst(effortStr, stateMatch.m0))
                ELSE effortStr
        loadMatch == LoadMatch(rest)
        load == IF loadMatch.ok /\ rest # <<>>
                THEN Load(DigitsVal(loadMatch.m1),
                          IF Includes(rest, <<"k", "g">>) THEN "kg" ELSE "")
                ELSE null
    IN  <<Effort(load, PlainResult(state, completionValue, target), FALSE)>>

\* parseEffort(effortStr, target): the efforts of one set description; the
\* null it returns for an empty string is the empty sequence here (both
\* callers test "efforts && efforts.length > 0")
ParseEffort(str, target) ==
    LET effortStr == Trim(str)
        repeatWithStateMatch == RepeatWithStateMatch(effortStr)
        completionMatch == CompletionMatch(effortStr)
    IN  IF effortStr = <<>> THEN <<>>
        ELSE IF repeatWithStateMatch.ok
        THEN RepeatWithState(repeatWithStateMatch, target)
        ELSE IF effortStr = <<"/">> THEN BareRepeat(target)
        ELSE IF Includes(effortStr, <<"/">>)
        THEN IF completionMatch.ok
             THEN DropSetWithCompletion(completionMatch, target)
             ELSE DropSetPlain(effortStr)
        ELSE PlainEffort(effortStr, target)

-----------------------------------------------------------------------------
(* parseTarget, parseSet, processListItems, processRepeatEfforts           *)

\* parseTarget(targetStr)
ParseTarget(str) ==
    LET targetStr == Trim(str)
        valueStr == Run(targetStr, Digit)
        unit == After(targetStr, Len(valueStr))
    IN  IF valueStr # <<>> /\ unit \in {<<"m", "i", "n">>, <<"s">>}
        THEN [type |-> "time",
              duration |-> [value |-> DigitsVal(valueStr),
                            unit |-> IF unit = <<"s">> THEN "s" ELSE "min"]]
        ELSE [type |-> "reps", count |-> ParseIntOr0(targetStr)]

\* /'([^']+)'/ : the leftmost quote that is followed by one or more characters
\* other than a quote and then by a quote; m1 is the text between them
CommentMatch(s) ==
    LET closeAt(p) == p + Len(RunNot(After(s, p), {"'"})) + 1
        at == {p \in DOMAIN s :
                  s[p] = "'" /\ closeAt(p) > p + 1 /\ closeAt(p) <= Len(s)}
    IN  IF at = {} THEN [ok |-> FALSE]
        ELSE LET p == Min(at)
             IN  [ok |-> TRUE, m0 |-> Sub(s, p, closeAt(p)),
                  m1 |-> Sub(s, p + 1, closeAt(p) - 1)]

\* lines 428: /,\s*\/\s*,/ or /,\s*\/\s*$/ or /^\s*\/\s*,/
IsolatedSlash(s) ==
    LET slashThen(t, end) ==
            LET a == After(t, Len(Run(t, WS)))
                b == IF a = <<>> THEN <<>> ELSE After(Tail(a), Len(Run(Tail(a), WS)))
            IN  /\ a # <<>> /\ a[1] = "/"
                /\ IF end THEN b = <<>> ELSE b # <<>> /\ b[1] = ","
    IN  \/ \E p \in DOMAIN s : s[p] = "," /\ slashThen(After(s, p), FALSE)
        \/ \E p \in DOMAIN s : s[p] = "," /\ slashThen(After(s, p), TRUE)
        \/ slashThen(s, FALSE)

SetOf(efforts, comment) == [efforts |-> efforts, comment |-> comment]

\* a set of the efforts parsed, whether there is one or none
SetAlways(efforts, comment) ==
    SetOf(efforts, IF comment = <<>> THEN undefined ELSE comment)

\* lines 438-450: the set of the efforts parsed, null when there is none
SetOrNull(efforts, comment) ==
    IF Len(efforts) > 0
    THEN SetOf(efforts, IF comment = <<>> THEN undefined ELSE comment)
    ELSE null

\* lines 412-418: the description without its first quoted comment
StripComment(str, commentMatch) ==
    IF commentMatch.ok THEN Trim(RemoveFirst(str, commentMatch.m0)) ELSE str

CommentOf(commentMatch) == IF commentMatch.ok THEN commentMatch.m1 ELSE <<>>

\* lines 420-450, the description trimmed and its comment match given
RECURSIVE ParseSetOf(_, _, _)
ParseSetOf(setStr, comment, target) ==
    IF Includes(setStr, <<",">>) /\ IsolatedSlash(setStr)
    THEN LET firstPart == Trim(Split(setStr, ",")[1])
         IN  IF firstPart = <<>> THEN null
             ELSE ParseSetOf(StripComment(firstPart, CommentMatch(firstPart)),
                             CommentOf(CommentMatch(firstPart)), target)
    ELSE SetOrNull(ParseEffort(setStr, target), comment)

\* parseSet(setStr, target): a set, or null
ParseSet(str, target) ==
    IF Trim(str) = <<>> THEN null
    ELSE ParseSetOf(StripComment(Trim(str), CommentMatch(Trim(str))),
                    CommentOf(CommentMatch(Trim(str))), target)

\* lines 344-362: the set of one comma-separated piece, if it has efforts
PieceSet(efforts, comment) ==
    IF Len(efforts) > 0 THEN <<SetOf(efforts, comment)>> ELSE <<>>

\* lines 339-364: the sets of the comma-separated pieces of one list item
RECURSIVE ListPieces(_, _, _, _)
ListPieces(setStrings, index, comment, target) ==
    IF index > Len(setStrings) THEN <<>>
    ELSE PieceSet(ParseEffort(setStrings[index], target),
                  IF index = Len(setStrings) THEN comment ELSE undefined)
         \o ListPieces(setStrings, index + 1, comment, target)

\* lines 367-374: the set of a list item without a comma, if there is one
SingleSet(set, comment) ==
    IF set = null THEN <<>>
    ELSE IF comment # <<>> THEN <<[set EXCEPT !.comment = comment]>>
    ELSE <<set>>

\* lines 333-375, the item without its comment given
ItemSets(item, comment, target) ==
    IF Includes(item, <<",">>)
    THEN ListPieces(FilterNonEmpty(MapTrim(Split(item, ","))), 1, comment,
                    target)
    ELSE SingleSet(ParseSet(item, target), comment)

\* lines 324-376: the sets one list item adds to its exercise
ListItemSets(str, target) ==
    ItemSets(StripComment(str, CommentMatch(str)), CommentOf(CommentMatch(str)),
             target)

\* the sets of the items put before the sets the exercise has
RECURSIVE ProcessListItemsFirst(_, _)
ProcessListItemsFirst(exercise, items) ==
    IF items = <<>> THEN exercise
    ELSE ProcessListItemsFirst(
             [exercise EXCEPT
                 !.sets = ListItemSets(items[1], exercise.target) \o @],
             Tail(items))

\* processListItems(exercise, items): the exercise with the sets of the items
RECURSIVE ProcessListItems(_, _)
ProcessListItems(exercise, items) ==
    IF items = <<>> THEN exercise
    ELSE ProcessListItems(
             [exercise EXCEPT
                 !.sets = @ \o ListItemSets(items[1], exercise.target)],
             Tail(items))

\* a repeat effort that is left as it was parsed
Unresolved(effort, prevEffort) == effort

\* a ResolveFromPrev that copies the whole previous effort
CopyPrev(effort, prevEffort) ==
    Effort(prevEffort.load, prevEffort.result, FALSE)

\* lines 254-301: a repeat effort whose previous set has an effort at its place
ResolveFromPrev(effort, prevEffort) ==
    LET res ==
            IF prevEffort.result.type = "reps" /\ effort.result.type = "reps"
            THEN IF effort.result.state = ""
                 THEN Reps(prevEffort.result.count, prevEffort.result.state)
                 ELSE IF effort.result.state = "C" /\ effort.result.count = 0
                 THEN Reps(0, effort.result.state)
                 ELSE effort.result
            ELSE IF prevEffort.result.type = "time" /\ effort.result.type = "time"
            THEN IF effort.result.state = ""
                 THEN Time(prevEffort.result.duration.value,
                           prevEffort.result.duration.unit,
                           prevEffort.result.state)
                 ELSE IF /\ effort.result.state = "C"
                         /\ effort.result.duration.value = 0
                 THEN Time(0, prevEffort.result.duration.unit,
                           effort.result.state)
                 ELSE effort.result
            ELSE effort.result
    IN  Effort(prevEffort.load, res, FALSE)

\* lines 302-314: a repeat effort whose previous set is too short
ResolveFromTarget(effort, target) ==
    IF /\ target.type = "reps" /\ effort.result.type = "reps"
       /\ effort.result.state \in {"A", "B"}
    THEN [effort EXCEPT !.result.count = target.count]
    ELSE IF /\ target.type = "time" /\ effort.result.type = "time"
            /\ effort.result.state \in {"A", "B"}
    THEN [effort EXCEPT !.result.duration = target.duration]
    ELSE effort

\* a ResolveSet that does not look at the repeat flag
ResolveUnflagged(currentSet, prevSet, target) ==
    [currentSet EXCEPT !.efforts =
        [j \in 1..Len(currentSet.efforts) |->
            IF j <= Len(prevSet.efforts)
            THEN ResolveFromPrev(currentSet.efforts[j], prevSet.efforts[j])
            ELSE ResolveFromTarget(currentSet.efforts[j], target)]]

\* lines 248-316: the efforts of set i, given set i - 1 as it stands
ResolveSet(currentSet, prevSet, target) ==
    [currentSet EXCEPT !.efforts =
        [j \in 1..Len(currentSet.efforts) |->
            LET effort == currentSet.efforts[j]
            IN  IF ~effort.isRepeat THEN effort
                ELSE IF j <= Len(prevSet.efforts)
                THEN ResolveFromPrev(effort, prevSet.efforts[j])
                ELSE ResolveFromTarget(effort, target)]]

\* lines 243-317: the loop over the sets, from the second one (n is 1-based)
RECURSIVE ResolveFrom(_, _, _)
ResolveFrom(sets, n, target) ==
    IF n > Len(sets) THEN sets
    ELSE ResolveFrom([sets EXCEPT ![n] = ResolveSet(sets[n], sets[n - 1], target)],
                     n + 1, target)

\* processRepeatEfforts(exercise)
ProcessRepeatEfforts(exercise) ==
    IF Len(exercise.sets) <= 1 THEN exercise
    ELSE [exercise EXCEPT !.sets = ResolveFrom(exercise.sets, 2, exercise.target)]

-----------------------------------------------------------------------------
(* The line patterns of parseContent and parseSession                      *)

\* a pattern that no line matches
NoSeparator(line) == FALSE

\* line 79: /^---+$/
IsSeparator(line) == Len(line) >= 3 /\ AllIn(line, {"-"})

\* lines 70, 75, 115, 157: startsWith('# ')
IsTitle(line) == StartsWith(line, <<"#", " ">>)

\* lines 123, 157: /^\d{2}\/\d{2}\/\d{4}(\s+\d{2}:\d{2})?$/
IsDate(line) ==
    LET rest == After(line, 10)
        t    == After(rest, Len(Run(rest, WS)))
    IN  /\ Len(line) >= 10
        /\ AllIn(Sub(line, 1, 2), Digit) /\ line[3] = "/"
        /\ AllIn(Sub(line, 4, 5), Digit) /\ line[6] = "/"
        /\ AllIn(Sub(line, 7, 10), Digit)
        /\ \/ rest = <<>>
           \/ /\ Len(t) = 5 /\ Len(t) < Len(rest)
              /\ AllIn(Sub(t, 1, 2), Digit) /\ t[3] = ":"
              /\ AllIn(Sub(t, 4, 5), Digit)

\* an ExerciseHead whose separator is x only
ExerciseHeadX(line, q) ==
    LET open  == q + Len(Run(After(line, q), WS)) + 1
        count == Run(After(line, open), Digit)
        sepAt == open + Len(count) + 1
        tgt   == RunNot(After(line, sepAt), {")"})
        close == sepAt + Len(tgt) + 1
    IN  IF /\ open <= Len(line) /\ line[open] = "("
           /\ count # <<>>
           /\ sepAt <= Len(line) /\ line[sepAt] = "x"
           /\ tgt # <<>>
           /\ close <= Len(line)
        THEN [ok |-> TRUE, m2 |-> count, m3 |-> tgt, tail |-> After(line, close)]
        ELSE [ok |-> FALSE]

\* the part  \s*\((\d+)[\*x]([^)]+)\)  of both exercise patterns, tried after
\* the first q characters of the line
ExerciseHead(line, q) ==
    LET open  == q + Len(Run(After(line, q), WS)) + 1
        count == Run(After(line, open), Digit)
        sepAt == open + Len(count) + 1
        tgt   == RunNot(After(line, sepAt), {")"})
        close == sepAt + Len(tgt) + 1
    IN  IF /\ open <= Len(line) /\ line[open] = "("
           /\ count # <<>>
           /\ sepAt <= Len(line) /\ line[sepAt] \in {"*", "x"}
           /\ tgt # <<>>
           /\ close <= Len(line)
        THEN [ok |-> TRUE, m2 |-> count, m3 |-> tgt, tail |-> After(line, close)]
        ELSE [ok |-> FALSE]

\* line 162: /^(.+?)\s*\((\d+)[\*x]([^)]+)\)\s*:?(.*)$/
ExerciseMatch(line) ==
    LET detail(tail) ==
            LET a == After(tail, Len(Run(tail, WS)))
            IN  IF a # <<>> /\ a[1] = ":" THEN Tail(a) ELSE a
        at == {q \in 1..Len(line) :
                  /\ NoneIn(Sub(line, 1, q), LineTerm)
                  /\ ExerciseHead(line, q).ok
                  /\ NoneIn(detail(ExerciseHead(line, q).tail), LineTerm)}
    IN  IF at = {} THEN [ok |-> FALSE]
        ELSE LET h == ExerciseHead(line, Min(at))
             IN  [ok |-> TRUE, m1 |-> Sub(line, 1, Min(at)), m2 |-> h.m2,
                  m3 |-> h.m3, m4 |-> detail(h.tail)]

\* a pattern that every line matches
AnyLineMatch(line) == TRUE

\* line 214: /^(.+?)\s*\((\d+)[\*x]([^)]+)\).*$/
NewExerciseMatch(line) ==
    \E q \in 1..Len(line) :
        /\ NoneIn(Sub(line, 1, q), LineTerm)
        /\ ExerciseHead(line, q).ok
        /\ NoneIn(ExerciseHead(line, q).tail, LineTerm)

-----------------------------------------------------------------------------
(* new Date(year, monthIndex, day, hours, minutes), in local time; the     *)
(* fields read back are the normalised ones                                *)

IsLeap(y) == (y % 4 = 0 /\ y % 100 # 0) \/ y % 400 = 0

\* the days of month m (0-based) of year y
DaysIn(y, m) ==
    IF m = 1 THEN (IF IsLeap(y) THEN 29 ELSE 28)
    ELSE IF m \in {3, 5, 8, 10} THEN 30 ELSE 31

RECURSIVE CarryDays(_, _, _)
CarryDays(y, m, d) ==
    IF d < 1
    THEN LET pm == IF m = 0 THEN 11 ELSE m - 1
             py == IF m = 0 THEN y - 1 ELSE y
         IN  CarryDays(py, pm, d + DaysIn(py, pm))
    ELSE IF d > DaysIn(y, m)
    THEN CarryDays(IF m = 11 THEN y + 1 ELSE y, IF m = 11 THEN 0 ELSE m + 1,
                   d - DaysIn(y, m))
    ELSE [year |-> y, month |-> m, day |-> d]

\* a date that keeps the fields as they are given
RawDate(year, monthIndex, day, hours, minutes) ==
    [year |-> year, month |-> monthIndex, day |-> day,
     hours |-> hours, minutes |-> minutes]

NewDate(year, monthIndex, day, hours, minutes) ==
    LET y0   == IF year >= 0 /\ year <= 99 THEN 1900 + year ELSE year
        y1   == y0 + (IF monthIndex < 0 THEN -1 ELSE monthIndex \div 12)
        m1   == IF monthIndex < 0 THEN monthIndex + 12 ELSE monthIndex % 12
        mins == hours * 60 + minutes
        ymd  == CarryDays(y1, m1, day + (mins \div 1440))
    IN  [year |-> ymd.year, month |-> ymd.month, day |-> ymd.day,
         hours |-> (mins % 1440) \div 60, minutes |-> mins % 60]

\* lines 120-146: the date of a chunk, null when no line is a date line
SessionDate(chunkLines) ==
    LET at == {p \in DOMAIN chunkLines : IsDate(Trim(chunkLines[p]))}
        dateLine == Trim(chunkLines[Min(at)])
        time == After(dateLine, 10 + Len(Run(After(dateLine, 10), WS)))
    IN  IF at = {} THEN null
        ELSE NewDate(DigitsVal(Sub(dateLine, 7, 10)),
                     DigitsVal(Sub(dateLine, 4, 5)) - 1,
                     DigitsVal(Sub(dateLine, 1, 2)),
                     IF time = <<>> THEN 0 ELSE DigitsVal(Sub(time, 1, 2)),
                     IF time = <<>> THEN 0 ELSE DigitsVal(Sub(time, 4, 5)))

\* a title that is left undefined when no line is a title line
TitleIfAny(chunkLines) ==
    LET at == {p \in DOMAIN chunkLines : IsTitle(Trim(chunkLines[p]))}
    IN  IF at = {} THEN undefined
        ELSE Trim(After(Trim(chunkLines[Min(at)]), 2))

\* lines 114-118: the title of a chunk, '' when no line is a title line
SessionTitle(chunkLines) ==
    LET at == {p \in DOMAIN chunkLines : IsTitle(Trim(chunkLines[p]))}
    IN  IF at = {} THEN <<>>
        ELSE Trim(After(Trim(chunkLines[Min(at)]), 2))

-----------------------------------------------------------------------------
(* parseContent and parseSession, one action per step                      *)

\* lines 60-63: the document is split into lines
SplitContent ==
    /\ UNCHANGED statsVars
    /\ pc = "parseContent"
    /\ lines' = Split(content, "\n")
    /\ ci' = 0
    /\ sections' = <<>>
    /\ currentSection' = <<>>
    /\ pc' = "contentLines"
    /\ UNCHANGED <<content, todo, sessions, sLines, si, session,
                   currentExercise, inListMode, listItems, visits, input>>

\* lines 66-89: one iteration of the line loop of parseContent
ContentLine ==
    /\ UNCHANGED statsVars
    /\ pc = "contentLines"
    /\ ci < Len(lines)
    /\ LET line == Trim(lines[ci + 1])
       IN  IF IsTitle(line) /\ Len(currentSection) > 0
           THEN /\ sections' = Append(sections, Join(currentSection, "\n"))
                /\ currentSection' = <<line>>
           ELSE IF IsTitle(line)
           THEN /\ currentSection' = <<line>>
                /\ UNCHANGED sections
           ELSE IF IsSeparator(line)
           THEN IF Len(currentSection) > 0
                THEN /\ sections' = Append(sections, Join(currentSection, "\n"))
                     /\ currentSection' = <<>>
                ELSE UNCHANGED <<sections, currentSection>>
           ELSE /\ currentSection' = Append(currentSection, line)
                /\ UNCHANGED sections
    /\ ci' = ci + 1
    /\ UNCHANGED <<content, pc, lines, todo, sessions, sLines, si, session,
                   currentExercise, inListMode, listItems, visits, input>>

\* a filter that keeps every chunk
KeepSections(ss) == ss

\* line 98: .filter(section => section.trim())
RECURSIVE FilterSections(_)
FilterSections(ss) ==
    IF ss = <<>> THEN <<>>
    ELSE (IF Trim(ss[1]) # <<>> THEN <<ss[1]>> ELSE <<>>)
         \o FilterSections(Tail(ss))

\* lines 91-99: the last chunk is closed, the empty chunks are dropped and
\* the rest is handed to parseSession one by one
CloseContent ==
    /\ UNCHANGED statsVars
    /\ pc = "contentLines"
    /\ ci = Len(lines)
    /\ LET all == IF Len(currentSection) > 0
                  THEN Append(sections, Join(currentSection, "\n"))
                  ELSE sections
       IN  /\ sections' = all
           /\ todo' = FilterSections(all)
           /\ pc' = IF FilterSections(all) = <<>> THEN "done" ELSE "parseSession"
    /\ sessions' = <<>>
    /\ UNCHANGED <<content, lines, ci, currentSection, sLines, si, session,
                   currentExercise, inListMode, listItems, visits, input>>

\* lines 105-151: parseSession starts on the next chunk
BeginSession ==
    /\ UNCHANGED statsVars
    /\ pc = "parseSession"
    /\ LET chunkLines == Split(todo[1], "\n")
       IN  /\ sLines' = chunkLines
           /\ session' = [title |-> SessionTitle(chunkLines),
                          date |-> SessionDate(chunkLines),
                          exercises |-> <<>>,
                          comment |-> <<>>]
    /\ si' = 0
    /\ currentExercise' = 0
    /\ inListMode' = FALSE
    /\ listItems' = <<>>
    /\ visits' = 0
    /\ pc' = "sessionLines"
    /\ UNCHANGED <<content, lines, ci, sections, currentSection, todo,
                   sessions, input>>

\* the line the loop of parseSession is at
Line == Trim(sLines[si + 1])

\* line 157
Skipped(line) == line = <<>> \/ IsTitle(line) \/ IsDate(line)

\* session.exercises with the exercise currentExercise refers to replaced
WithCurrent(e) == [session EXCEPT !.exercises[currentExercise] = e]

\* a flush that drops what is pending
NotFlushed == session

\* lines 165-168, 208-211, 224-226: the pending items go to the current exercise
Flushed ==
    IF currentExercise # 0 /\ inListMode /\ Len(listItems) > 0
    THEN WithCurrent(ProcessListItems(session.exercises[currentExercise],
                                      listItems))
    ELSE session

\* lines 186-189
PushSet(set) == IF set # null THEN <<set>> ELSE <<>>

\* lines 184-190: the sets of the inline detail
RECURSIVE InlineSets(_, _)
InlineSets(setDetails, target) ==
    IF setDetails = <<>> THEN <<>>
    ELSE PushSet(ParseSet(setDetails[1], target))
         \o InlineSets(Tail(setDetails), target)

\* lines 171-191: the exercise a definition line creates
ExerciseOf(m, target) ==
    [name |-> Trim(m.m1),
     targetSets |-> DigitsVal(m.m2),
     target |-> target,
     sets |-> IF Trim(m.m4) # <<>>
              THEN InlineSets(FilterNonEmpty(MapTrim(Split(m.m4, ","))), target)
              ELSE <<>>]

NewExercise(m) == ExerciseOf(m, ParseTarget(Trim(m.m3)))

\* lines 154-159: an empty line, a title or a date is passed over
SkipLine ==
    /\ UNCHANGED statsVars
    /\ pc = "sessionLines"
    /\ si < Len(sLines)
    /\ Skipped(Line)
    /\ si' = si + 1
    /\ visits' = visits + 1
    /\ UNCHANGED <<content, pc, lines, ci, sections, currentSection, todo,
                   sessions, sLines, session, currentExercise, inListMode,
                   listItems, input>>

\* lines 161-195: an exercise definition
ExerciseLine ==
    /\ UNCHANGED statsVars
    /\ pc = "sessionLines"
    /\ si < Len(sLines)
    /\ ~Skipped(Line)
    /\ ExerciseMatch(Line).ok
    /\ session' = [Flushed EXCEPT
                      !.exercises = Append(@, NewExercise(ExerciseMatch(Line)))]
    /\ listItems' = IF currentExercise # 0 /\ inListMode /\ Len(listItems) > 0
                    THEN <<>> ELSE listItems
    /\ currentExercise' = Len(session.exercises) + 1
    /\ inListMode' = FALSE
    /\ si' = si + 1
    /\ visits' = visits + 1
    /\ UNCHANGED <<content, pc, lines, ci, sections, currentSection, todo,
                   sessions, sLines, input>>

\* lines 197-202: a list item of the current exercise
ListLine ==
    /\ UNCHANGED statsVars
    /\ pc = "sessionLines"
    /\ si < Len(sLines)
    /\ ~Skipped(Line)
    /\ ~ExerciseMatch(Line).ok
    /\ StartsWith(Line, <<"-">>) /\ currentExercise # 0
    /\ inListMode' = TRUE
    /\ listItems' = Append(listItems, Trim(After(Line, 1)))
    /\ si' = si + 1
    /\ visits' = visits + 1
    /\ UNCHANGED <<content, pc, lines, ci, sections, currentSection, todo,
                   sessions, sLines, session, currentExercise, input>>

\* lines 204-221: any other line; in list mode the pending items are
\* processed, and a line that looks like a definition is visited again
OtherLine ==
    /\ UNCHANGED statsVars
    /\ pc = "sessionLines"
    /\ si < Len(sLines)
    /\ ~Skipped(Line)
    /\ ~ExerciseMatch(Line).ok
    /\ ~(StartsWith(Line, <<"-">>) /\ currentExercise # 0)
    /\ IF inListMode /\ currentExercise # 0
       THEN /\ session' = Flushed
            /\ listItems' = <<>>
            /\ IF NewExerciseMatch(Line)
               THEN si' = si /\ inListMode' = FALSE
               ELSE si' = si + 1 /\ UNCHANGED inListMode
       ELSE /\ si' = si + 1
            /\ UNCHANGED <<session, listItems, inListMode>>
    /\ visits' = visits + 1
    /\ UNCHANGED <<content, pc, lines, ci, sections, currentSection, todo,
                   sessions, sLines, currentExercise, input>>

\* lines 223-226: the loop is over, what is still pending is processed
FlushSession ==
    /\ UNCHANGED statsVars
    /\ pc = "sessionLines"
    /\ si = Len(sLines)
    /\ session' = Flushed
    /\ pc' = "resolve"
    /\ UNCHANGED <<content, lines, ci, sections, currentSection, todo,
                   sessions, sLines, si, currentExercise, inListMode,
                   listItems, visits, input>>

\* lines 228-233 and 99: the repeats of every exercise are resolved and the
\* session is returned to the map of parseContent
ResolveSession ==
    /\ UNCHANGED statsVars
    /\ pc = "resolve"
    /\ session' = [session EXCEPT !.exercises =
                      [n \in 1..Len(session.exercises) |->
                          ProcessRepeatEfforts(session.exercises[n])]]
    /\ sessions' = Append(sessions, session')
    /\ todo' = Tail(todo)
    /\ pc' = IF Tail(todo) = <<>> THEN "done" ELSE "parseSession"
    /\ UNCHANGED <<content, lines, ci, sections, currentSection, sLines, si,
                   currentExercise, inListMode, listItems, visits, input>>

Next ==
    \/ SplitContent
    \/ ContentLine
    \/ CloseContent
    \/ BeginSession
    \/ SkipLine
    \/ ExerciseLine
    \/ ListLine
    \/ OtherLine
    \/ FlushSession
    \/ ResolveSession

-----------------------------------------------------------------------------
(* parseContent and parseSession as functions of the text: the same loops, *)
(* for the documents that are parsed beside the one of the run             *)

\* lines 66-89: the chunks closed and the chunk open after one more line
SectionStep(acc, rawLine) ==
    LET line == Trim(rawLine)
    IN  IF IsTitle(line)
        THEN [closed |-> IF Len(acc.open) > 0
                         THEN Append(acc.closed, Join(acc.open, "\n"))
                         ELSE acc.closed,
              open |-> <<line>>]
        ELSE IF IsSeparator(line)
        THEN [closed |-> IF Len(acc.open) > 0
                         THEN Append(acc.closed, Join(acc.open, "\n"))
                         ELSE acc.closed,
              open |-> <<>>]
        ELSE [closed |-> acc.closed, open |-> Append(acc.open, line)]

RECURSIVE SectionLoop(_, _)
SectionLoop(acc, ls) ==
    IF ls = <<>> THEN acc ELSE SectionLoop(SectionStep(acc, ls[1]), Tail(ls))

\* lines 60-98: the chunks of a document that are handed to parseSession
SectionsOf(text) ==
    LET acc == SectionLoop([closed |-> <<>>, open |-> <<>>], Split(text, "\n"))
    IN  FilterSections(IF Len(acc.open) > 0
                       THEN Append(acc.closed, Join(acc.open, "\n"))
                       ELSE acc.closed)

\* lines 165-168, 208-211, 224-226 on the exercises of a session: the pending
\* items go to the current exercise, which is the last one
FlushedInto(st) ==
    IF st.exercises # <<>> /\ st.inListMode /\ Len(st.listItems) > 0
    THEN [st.exercises EXCEPT ![Len(st.exercises)] =
             ProcessListItems(st.exercises[Len(st.exercises)], st.listItems)]
    ELSE st.exercises

\* lines 153-221: one line of the loop of parseSession
SessionStep(st, rawLine) ==
    LET line == Trim(rawLine)
    IN  IF Skipped(line) THEN st
        ELSE IF ExerciseMatch(line).ok
        THEN [exercises |-> Append(FlushedInto(st), NewExercise(ExerciseMatch(line))),
              inListMode |-> FALSE,
              listItems |-> IF /\ st.exercises # <<>> /\ st.inListMode
                               /\ Len(st.listItems) > 0
                            THEN <<>> ELSE st.listItems]
        ELSE IF StartsWith(line, <<"-">>) /\ st.exercises # <<>>
        THEN [exercises |-> st.exercises, inListMode |-> TRUE,
              listItems |-> Append(st.listItems, Trim(After(line, 1)))]
        ELSE IF st.inListMode /\ st.exercises # <<>>
        THEN [exercises |-> FlushedInto(st), inListMode |-> TRUE,
              listItems |-> <<>>]
        ELSE st

RECURSIVE SessionLoop(_, _)
SessionLoop(st, ls) ==
    IF ls = <<>> THEN st ELSE SessionLoop(SessionStep(st, ls[1]), Tail(ls))

RECURSIVE ResolveAll(_)
\* lines 228-231
ResolveAll(exercises) ==
    IF exercises = <<>> THEN <<>>
    ELSE <<ProcessRepeatEfforts(exercises[1])>> \o ResolveAll(Tail(exercises))

\* parseSession(sessionText)
ParseSessionText(sessionText) ==
    LET chunkLines == Split(sessionText, "\n")
        st == SessionLoop([exercises |-> <<>>, inListMode |-> FALSE,
                           listItems |-> <<>>], chunkLines)
    IN  [title |-> SessionTitle(chunkLines),
         date |-> SessionDate(chunkLines),
         exercises |-> ResolveAll(FlushedInto(st)),
         comment |-> <<>>]

RECURSIVE MapParseSession(_)
MapParseSession(ss) ==
    IF ss = <<>> THEN <<>>
    ELSE <<ParseSessionText(ss[1])>> \o MapParseSession(Tail(ss))

\* parseContent(content)
ParseContentText(text) == MapParseSession(SectionsOf(text))

\* the run and the function give the same sessions
RunIsFunction == pc = "done" => sessions = ParseContentText(content)

-----------------------------------------------------------------------------
(* The documents the parser is run on                                      *)

MaxLines == 4

MaxSets == 3

\* an exercise definition with inline detail: B (2x8): 5kg A, /
DefInline ==
    <<"B", " ", "(", "2", "x", "8", ")", ":", " ", "5", "k", "g", " ", "A", ",", " ", "/">>

\* an exercise definition without detail: P (2*1min)
DefBare == <<"P", " ", "(", "2", "*", "1", "m", "i", "n", ")">>

\* the lines the documents of Spec are written with
DocLines ==
    {<<"#", " ", "T">>,
     <<"-", "-", "-">>,
     <<>>,
     <<"2", "0", "/", "0", "2", "/", "2", "0", "2", "5">>,
     DefInline,
     DefBare,
     <<"-", " ", "/", " ", "C", "7">>,
     <<"-", " ", "5", "k", "g", " ", "C", "6">>,
     <<"n", "o", "t", "e">>}

SeqsUpTo(S, n) == UNION {[1..m -> S] : m \in 0..n}

\* join with a separator of several characters
RECURSIVE JoinWith(_, _)
JoinWith(ss, sep) ==
    IF ss = <<>> THEN <<>>
    ELSE IF Len(ss) = 1 THEN ss[1]
    ELSE ss[1] \o sep \o JoinWith(Tail(ss), sep)

NoInput == [layout |-> "document", target |-> [form |-> "none", a |-> 0, b |-> 0],
            descs |-> <<>>]

Start(text, how) ==
    /\ content = text
    /\ input = how
    /\ pc = "parseContent"
    /\ lines = <<>>
    /\ ci = 0
    /\ sections = <<>>
    /\ currentSection = <<>>
    /\ todo = <<>>
    /\ sessions = <<>>
    /\ sLines = <<>>
    /\ si = 0
    /\ session = null
    /\ currentExercise = 0
    /\ inListMode = FALSE
    /\ listItems = <<>>
    /\ visits = 0
    /\ StatsIdle

\* any document of at most MaxLines lines of DocLines
Init == \E ls \in SeqsUpTo(DocLines, MaxLines) : Start(Join(ls, "\n"), NoInput)

Spec == Init /\ [][Next]_vars

\* the decimal digits of a natural number
RECURSIVE Digits(_)
Digits(n) ==
    LET d == <<"0", "1", "2", "3", "4", "5", "6", "7", "8", "9">>[(n % 10) + 1]
    IN  IF n < 10 THEN <<d>> ELSE Digits(n \div 10) \o <<d>>

\* a completion value as it is written: nothing, digits, or a time expression
\* <a>s, <a>min or <a>min<b>s
Value(form, a, b) == [form |-> form, a |-> a, b |-> b]

NoValue == Value("none", 0, 0)

RenderValue(v) ==
    CASE v.form = "none" -> <<>>
      [] v.form = "num"  -> Digits(v.a)
      [] v.form = "s"    -> Digits(v.a) \o <<"s">>
      [] v.form = "min"  -> Digits(v.a) \o <<"m", "i", "n">>
      [] v.form = "mins" -> Digits(v.a) \o <<"m", "i", "n">> \o Digits(v.b) \o <<"s">>

\* a weight as it is written, in tenths of a unit: 75 is written 7.5
RenderWeight(tenths) ==
    Digits(tenths \div 10)
        \o (IF tenths % 10 = 0 THEN <<>> ELSE <<".">> \o Digits(tenths % 10))

RECURSIVE RenderValues(_)
RenderValues(vs) ==
    IF vs = <<>> THEN <<>> ELSE <<RenderValue(vs[1])>> \o RenderValues(Tail(vs))

RECURSIVE RenderWeights(_)
RenderWeights(ws) ==
    IF ws = <<>> THEN <<>> ELSE <<RenderWeight(ws[1])>> \o RenderWeights(Tail(ws))

\* a set description as it is written: a plain effort (weight, kg, state,
\* value), a repeat marker (state, value), a drop set (weights, state,
\* values) or some other text; weight -1 is no weight
Desc(kind, weight, kg, state, value, weights, values, text) ==
    [kind |-> kind, weight |-> weight, kg |-> kg, state |-> state,
     value |-> value, weights |-> weights, values |-> values, text |-> text]

Plain(weight, kg, state, value) ==
    Desc("plain", weight, kg, state, value, <<>>, <<>>, <<>>)

Repeat(state, value) == Desc("repeat", -1, FALSE, state, value, <<>>, <<>>, <<>>)

Drop(weights, state, values) ==
    Desc("drop", -1, FALSE, state, NoValue, weights, values, <<>>)

Other(text) == Desc("other", -1, FALSE, "", NoValue, <<>>, <<>>, text)

Letter(state) == IF state = "" THEN <<>> ELSE <<state>>

Render(d) ==
    CASE d.kind = "plain" ->
            (IF d.weight < 0 THEN <<>>
             ELSE RenderWeight(d.weight)
                  \o (IF d.kg THEN <<"k", "g">> ELSE <<>>)
                  \o (IF d.state = "" THEN <<>> ELSE <<" ">>))
            \o Letter(d.state) \o RenderValue(d.value)
      [] d.kind = "repeat" ->
            <<"/">> \o (IF d.state = "" THEN <<>>
                        ELSE <<" ">> \o Letter(d.state) \o RenderValue(d.value))
      [] d.kind = "drop" ->
            Join(RenderWeights(d.weights), "/") \o <<"k", "g", " ">>
                \o Letter(d.state) \o Join(RenderValues(d.values), "/")
      [] d.kind = "other" -> d.text

RECURSIVE RenderAll(_)
RenderAll(ds) == IF ds = <<>> THEN <<>> ELSE <<Render(ds[1])>> \o RenderAll(Tail(ds))

\* the targets the exercises are given: 8, 5, 1min, 30s
Targets == {Value("num", 8, 0), Value("num", 5, 0), Value("min", 1, 0),
            Value("s", 30, 0)}

Values == {NoValue, Value("num", 7, 0), Value("num", 12, 0), Value("s", 45, 0),
           Value("min", 2, 0), Value("mins", 1, 30)}

PlainDescs ==
    {Plain(450, TRUE, "", NoValue), Plain(200, FALSE, "", NoValue)}
    \cup {Plain(w, w = 450, st, v) :
             w \in {-1, 450, 200}, st \in StateLetter, v \in Values}

MarkerValues == {NoValue, Value("num", 7, 0), Value("num", 0, 0),
                 Value("s", 45, 0), Value("mins", 1, 30)}

RepeatDescs ==
    {Repeat("", NoValue)}
    \cup {Repeat(st, v) : st \in StateLetter, v \in MarkerValues}

WeightLists == {<<100, 50>>, <<75, 50>>, <<800, 700, 600>>}

ValueLists ==
    {<<>>,
     <<Value("num", 7, 0)>>,
     <<Value("num", 7, 0), Value("num", 5, 0)>>,
     <<Value("num", 3, 0), Value("num", 2, 0)>>,
     <<Value("num", 8, 0), Value("num", 6, 0), Value("num", 4, 0)>>,
     <<Value("s", 45, 0), Value("s", 30, 0)>>}

DropDescs ==
    {Drop(ws, st, vs) : ws \in WeightLists, st \in StateLetter, vs \in ValueLists}

OtherDescs ==
    {Other(<<"/", "C", "7">>), Other(<<"1", "0", "/", "5", "k", "g">>),
     Other(<<"C", "3", "0", "s", "5">>)}

AllDescs == PlainDescs \cup RepeatDescs \cup DropDescs \cup OtherDescs

\* the first set of a run of sets, and the sets that may follow it
FirstDescs ==
    {d \in PlainDescs : d.weight = 450 /\ d.state \in {"A", "C"}
                        /\ d.value.form \in {"none", "num", "s"}}
    \cup {Drop(<<100, 50>>, "C", <<Value("num", 7, 0), Value("num", 5, 0)>>),
          Repeat("", NoValue)}

NextDescs ==
    {Repeat("", NoValue), Repeat("A", NoValue)}
    \cup {Repeat("C", v) : v \in MarkerValues}

DescLists ==
    {<<d>> : d \in AllDescs}
    \cup UNION {{<<d>> \o ds : d \in FirstDescs, ds \in [1..m -> NextDescs]} :
                   m \in 1..(MaxSets - 1)}

Header(targetStr) == <<"E", " ", "(", "3", "x">> \o targetStr \o <<")">>

\* the three ways the README writes the sets of an exercise
Written(layout, targetStr, ds) ==
    CASE layout = "inline" ->
            Header(targetStr) \o <<" ", ":", " ">>
                \o JoinWith(RenderAll(ds), <<",", " ">>)
      [] layout = "list" ->
            Join(<<<<"#", " ", "T">>, Header(targetStr) \o <<":">>>>
                 \o [n \in 1..Len(ds) |-> <<"-", " ">> \o Render(ds[n])]
                 \o <<<<"z">>>>, "\n")
      [] layout = "commas" ->
            Join(<<Header(targetStr) \o <<":">>,
                   <<"-", " ">> \o JoinWith(RenderAll(ds), <<",", " ">>)>>, "\n")

Layouts == {"inline", "list", "commas"}

\* one exercise, its sets written in one of the three ways
InitSets ==
    \E layout \in Layouts, t \in Targets, ds \in DescLists :
        Start(Written(layout, RenderValue(t), ds),
              [layout |-> layout, target |-> t, descs |-> ds])

SpecSets == InitSets /\ [][Next]_vars

-----------------------------------------------------------------------------
(* Documents that are the head of a session: a title, dates, a body        *)

MaxDates == 2

\* 20/02/2025, 05/12/2024 07:30, 31/02/2025, 20/02/0099, 00/13/2025 24:60,
\* and 1/2/2025, which is no date line
DateLines ==
    {<<"2", "0", "/", "0", "2", "/", "2", "0", "2", "5">>,
     <<"0", "5", "/", "1", "2", "/", "2", "0", "2", "4", " ", "0", "7", ":", "3", "0">>,
     <<"3", "1", "/", "0", "2", "/", "2", "0", "2", "5">>,
     <<"2", "0", "/", "0", "2", "/", "0", "0", "9", "9">>,
     <<"0", "0", "/", "1", "3", "/", "2", "0", "2", "5", " ", "2", "4", ":", "6", "0">>,
     <<"1", "/", "2", "/", "2", "0", "2", "5">>}

\* no title, # T, and the title marker with no text
TitleOptions == {<<>>, <<<<"#", " ", "T">>>>, <<<<"#", " ">>>>}

BodyOptions ==
    {<<>>, <<<<>>>>,
     <<DefInline, <<"-", " ", "5", "k", "g", " ", "C", "6">>,
       <<"n", "o", "t", "e">> >>,
     <<DefBare>>}

HeadInput == [layout |-> "head", target |-> [form |-> "none", a |-> 0, b |-> 0],
              descs |-> <<>>]

InitHead ==
    \E title \in TitleOptions, dates \in SeqsUpTo(DateLines, MaxDates),
       body \in BodyOptions :
        Start(Join(title \o dates \o body, "\n"), HeadInput)

SpecHead == InitHead /\ [][Next]_vars

-----------------------------------------------------------------------------
(* Documents of one definition line, its separator and target varied       *)

\* a target as it is written: an integer, <integer>min or <integer>s, or
\* some other text; value and unit are those written
TargetText(text, kind, value, unit) ==
    [text |-> text, kind |-> kind, value |-> value, unit |-> unit]

\* 8, 08, -5, " 12 ", 1min, 90s, 8abc, abc, 1min30s, 1.5min, 8-10, "5 s"
TargetTexts ==
    {TargetText(<<"8">>, "int", 8, ""),
     TargetText(<<"0", "8">>, "int", 8, ""),
     TargetText(<<"-", "5">>, "int", -5, ""),
     TargetText(<<" ", "1", "2", " ">>, "int", 12, ""),
     TargetText(<<"1", "m", "i", "n">>, "time", 1, "min"),
     TargetText(<<"9", "0", "s">>, "time", 90, "s"),
     TargetText(<<"8", "a", "b", "c">>, "other", 0, ""),
     TargetText(<<"a", "b", "c">>, "other", 0, ""),
     TargetText(<<"1", "m", "i", "n", "3", "0", "s">>, "other", 0, ""),
     TargetText(<<"1", ".", "5", "m", "i", "n">>, "other", 0, ""),
     TargetText(<<"8", "-", "1", "0">>, "other", 0, ""),
     TargetText(<<"5", " ", "s">>, "other", 0, "")}

Separators == {"x", "X", "*"}

\* the place of the separator of the header in a document of that layout
SeparatorAt(layout) == IF layout = "list" THEN 9 ELSE 5

DefinitionDescs ==
    {<<Plain(450, TRUE, "A", NoValue)>>,
     <<Plain(450, TRUE, "A", NoValue), Repeat("C", Value("num", 7, 0))>>}

InitDefs ==
    \E layout \in Layouts, sep \in Separators, t \in TargetTexts,
       ds \in DefinitionDescs :
        Start([Written(layout, t.text, ds) EXCEPT ![SeparatorAt(layout)] = sep],
              [layout |-> "definition", target |-> t, descs |-> ds,
               separator |-> sep])

SpecDefs == InitDefs /\ [][Next]_vars

-----------------------------------------------------------------------------
(* Documents of one line of several sets that carries a quoted comment     *)

CommentText == <<"o", "k">>

CommentDescs ==
    {Plain(450, TRUE, "A", NoValue),
     Plain(400, TRUE, "C", Value("num", 6, 0)),
     Repeat("", NoValue),
     Repeat("C", Value("num", 7, 0)),
     Drop(<<100, 50>>, "C", <<Value("num", 7, 0), Value("num", 5, 0)>>)}

\* the descriptions rendered, the comment written behind number at
RenderCommented(ds, at) ==
    [n \in 1..Len(ds) |->
        Render(ds[n]) \o (IF n = at THEN <<" ", "'">> \o CommentText \o <<"'">>
                          ELSE <<>>)]

\* the sets on the definition line, or in one list item under it
CommentLayouts == {"inline", "commas"}

WrittenCommented(layout, ds, at) ==
    Join(<<<<"#", " ", "T">>>>
         \o (IF layout = "inline"
             THEN <<Header(Digits(8)) \o <<" ", ":", " ">>
                        \o JoinWith(RenderCommented(ds, at), <<",", " ">>)>>
             ELSE <<Header(Digits(8)) \o <<":">>,
                    <<"-", " ">> \o JoinWith(RenderCommented(ds, at), <<",", " ">>)>>)
         \o <<<<"z">>>>, "\n")

InitComments ==
    \E layout \in CommentLayouts,
       ds \in UNION {[1..m -> CommentDescs] : m \in 2..MaxSets} :
        \E at \in 1..Len(ds) :
            Start(WrittenCommented(layout, ds, at),
                  [layout |-> "comment", target |-> Value("num", 8, 0),
                   descs |-> ds, at |-> at, written |-> layout])

SpecComments == InitComments /\ [][Next]_vars

-----------------------------------------------------------------------------
(* Documents of one exercise whose sets are numbered in the order they are *)
(* written                                                                 *)

MaxPieces == 4

\* set description number n: n0kg Cn
Piece(n) == Digits(10 * n) \o <<"k", "g", " ", "C">> \o Digits(n)

\* where a description stands: on the line of the one before it (the
\* definition line for the first), on a list item of its own, or on a list
\* item of its own that follows a line the parser passes over
Placements == {"same", "item", "noted"}

NoteLine == <<"n", "o", "t", "e">>

\* the lines written so far, description number n placed
Placed(ls, n, placement) ==
    CASE placement = "same" ->
            [ls EXCEPT ![Len(ls)] =
                @ \o (IF n = 1 THEN <<" ">> ELSE <<",", " ">>) \o Piece(n)]
      [] placement = "item" -> Append(ls, <<"-", " ">> \o Piece(n))
      [] placement = "noted" ->
            ls \o <<NoteLine, <<"-", " ">> \o Piece(n)>>

RECURSIVE PlacedFrom(_, _, _)
PlacedFrom(ls, n, placements) ==
    IF n > Len(placements) THEN ls
    ELSE PlacedFrom(Placed(ls, n, placements[n]), n + 1, placements)

\* what follows the exercise: nothing, another definition, an empty line
OrderEndings == {<<>>, <<DefBare>>, <<<<>>>>}

WrittenInOrder(placements, ending) ==
    Join(<<<<"#", " ", "T">>>>
         \o PlacedFrom(<<Header(Digits(8)) \o <<":">> >>, 1, placements)
         \o ending, "\n")

InitOrder ==
    \E placements \in UNION {[1..m -> Placements] : m \in 1..MaxPieces},
       ending \in OrderEndings :
        Start(WrittenInOrder(placements, ending),
              [layout |-> "order", target |-> Value("num", 8, 0),
               descs |-> <<>>, placements |-> placements, ending |-> ending])

SpecOrder == InitOrder /\ [][Next]_vars

-----------------------------------------------------------------------------
(* stringifySession: a session written back as a document                  *)

\* ${n} of an integer
IntString(n) == IF n < 0 THEN <<"-">> \o Digits(-n) ELSE Digits(n)

\* padStart(2, '0'), and the two-digit fields of the fr-FR date
Pad2(n) == IF n < 10 THEN <<"0">> \o Digits(n) ELSE Digits(n)

\* a date written month first
FormatMonthFirst(date, includeTime) ==
    Pad2(date.month + 1) \o <<"/">> \o Pad2(date.day) \o <<"/">> \o Digits(date.year)
        \o (IF includeTime
            THEN <<" ">> \o Pad2(date.hours) \o <<":">> \o Pad2(date.minutes)
            ELSE <<>>)

\* formatDateTime: toLocaleDateString('fr-FR') is DD/MM/YYYY; the time of
\* day is written only when it is asked for
FormatDateTime(date, includeTime) ==
    Pad2(date.day) \o <<"/">> \o Pad2(date.month + 1) \o <<"/">> \o Digits(date.year)
        \o (IF includeTime
            THEN <<" ">> \o Pad2(date.hours) \o <<":">> \o Pad2(date.minutes)
            ELSE <<>>)

\* the characters of a unit
UnitString(unit) ==
    CASE unit = "kg"  -> <<"k", "g">>
      [] unit = "min" -> <<"m", "i", "n">>
      [] unit = "s"   -> <<"s">>
      [] OTHER        -> <<>>

\* the target of a definition: the count, or the duration with its unit
TargetString(target) ==
    IF target.type = "reps" THEN IntString(target.count)
    ELSE Digits(target.duration.value) \o UnitString(target.duration.unit)

\* `${name} (${targetSets}x${target})`, the comment of the exercise when it
\* has one and comments are asked for, and the colon
ExerciseHeading(exercise, includeComments) ==
    exercise.name \o <<" ", "(">> \o Digits(exercise.targetSets) \o <<"x">>
        \o TargetString(exercise.target) \o <<")">>
        \o (IF /\ includeComments
               /\ "comment" \in DOMAIN exercise
               /\ exercise.comment \notin {<<>>, undefined}
            THEN <<" ", "'">> \o exercise.comment \o <<"'">> ELSE <<>>)
        \o <<":", "\n">>

HasLoad(set) == \E k \in DOMAIN set.efforts : set.efforts[k].load # null

\* the loads of the efforts of a set, each followed by a space, the efforts
\* without a load left out, joined by ' / '
RECURSIVE LoadStrings(_)
LoadStrings(efforts) ==
    IF efforts = <<>> THEN <<>>
    ELSE (IF efforts[1].load # null
          THEN <<Digits(efforts[1].load.value)
                    \o UnitString(efforts[1].load.unit) \o <<" ">> >>
          ELSE <<>>)
         \o LoadStrings(Tail(efforts))

EffortsStr(set) == JoinWith(LoadStrings(set.efforts), <<" ", "/", " ">>)

\* targetSets placeholders, the first one with the text given
RECURSIVE Placeholders(_, _, _)
Placeholders(i, targetSets, first) ==
    IF i >= targetSets THEN <<>>
    ELSE <<" ", " ", "-", " ">> \o (IF i = 0 THEN first ELSE <<>>) \o <<"\n">>
         \o Placeholders(i + 1, targetSets, first)

\* the placeholders of an exercise: the first carries the loads of the first
\* set that has a load, when the most recent weights are kept
ExercisePlaceholders(exercise, keepMostRecentWeights) ==
    LET withLoad == {n \in DOMAIN exercise.sets : HasLoad(exercise.sets[n])}
    IN  IF keepMostRecentWeights /\ Len(exercise.sets) > 0 /\ withLoad # {}
        THEN Placeholders(0, exercise.targetSets,
                          EffortsStr(exercise.sets[Min(withLoad)]))
        ELSE Placeholders(0, exercise.targetSets, <<>>)

RECURSIVE ExercisesText(_, _)
ExercisesText(exercises, options) ==
    IF exercises = <<>> THEN <<>>
    ELSE ExerciseHeading(exercises[1], options.includeComments)
         \o ExercisePlaceholders(exercises[1], options.keepMostRecentWeights)
         \o ExercisesText(Tail(exercises), options)

\* the options of stringifySession, and their defaults
StringifySessionOptions ==
    [includeDate : BOOLEAN, includeComments : BOOLEAN,
     keepMostRecentWeights : BOOLEAN]

DefaultOptions ==
    [includeDate |-> FALSE, includeComments |-> TRUE,
     keepMostRecentWeights |-> TRUE]

\* stringifySession; today is the value of new Date()
StringifySession(ses, options, today) ==
    <<"#", " ">> \o ses.title \o <<"\n">>
        \o (IF options.includeDate /\ ses.date # null
            THEN FormatDateTime(ses.date, FALSE)
            ELSE FormatDateTime(today, FALSE))
        \o <<"\n">>
        \o (IF options.includeComments /\ ses.comment # <<>>
            THEN ses.comment \o <<"\n">> ELSE <<>>)
        \o ExercisesText(ses.exercises, options)
        \o <<"-", "-", "-", "-", "-", "-", "-", "-", "\n", "\n">>

\* the moments at which new Date() is read: one on a day that a document
\* names, one on another day
Todays ==
    {NewDate(2025, 1, 20, 9, 15), NewDate(2026, 10, 2, 18, 40)}

-----------------------------------------------------------------------------
(* Dates as the statistics read them                                       *)

\* the leap years up to year n
LeapsTo(n) == (n \div 4) - (n \div 100) + (n \div 400)

RECURSIVE DaysBeforeMonth(_, _)
DaysBeforeMonth(y, m) ==
    IF m = 0 THEN 0 ELSE DaysBeforeMonth(y, m - 1) + DaysIn(y, m - 1)

\* the days from 1 January 1970 to the day given (month 0-based)
DayNumber(y, m, d) ==
    365 * (y - 1970) + LeapsTo(y - 1) - LeapsTo(1969) + DaysBeforeMonth(y, m)
        + d - 1

\* Date.prototype.getTime, in minutes (the dates of the parser have no
\* seconds): the key and the comparisons use it only up to this scale
GetTime(date) ==
    1440 * DayNumber(date.year, date.month, date.day)
        + 60 * date.hours + date.minutes

\* Date.prototype.getDay of a day number: 1 January 1970 was a Thursday
GetDay(dayNumber) == (dayNumber + 4) % 7

\* dateUtils getWeekNumber: the Thursday of the week of the date, counted
\* in weeks from the week of 4 January of the Thursday's year
GetWeekNumber(date) ==
    LET dn == DayNumber(date.year, date.month, date.day)
        thursday == dn + 3 - ((GetDay(dn) + 6) % 7)
        d == CarryDays(date.year, date.month,
                       date.day + 3 - ((GetDay(dn) + 6) % 7))
        week1 == DayNumber(d.year, 0, 4)
        \* Math.round(x / 7) is the floor of (2x + 7) / 14
    IN  1 + ((2 * (thursday - week1 - 3 + ((GetDay(week1) + 6) % 7)) + 7) \div 14)

\* lines 75-89: safeGetDate of the date of a session, a Date or null
SafeGetDate(dateValue) == dateValue

-----------------------------------------------------------------------------
(* Array.prototype.sort and friends                                        *)

\* the place element i of seq takes in a stable sort by ascending key
RankIn(seq, key(_), i) ==
    1 + Cardinality({j \in DOMAIN seq :
                        \/ key(seq[j]) < key(seq[i])
                        \/ key(seq[j]) = key(seq[i]) /\ j < i})

\* seq sorted by ascending key, elements of equal key in their order
SortedBy(seq, key(_)) ==
    [p \in DOMAIN seq |-> seq[CHOOSE i \in DOMAIN seq : RankIn(seq, key, i) = p]]

\* the UTF-16 code units of the characters of names, in increasing order
CodeUnits ==
    <<" ", "(", ")", "-", "0", "1", "2", "3", "4", "5", "6", "7", "8", "9",
      "A", "B", "C", "D", "E", "F", "G", "H", "I", "J", "K", "L", "M", "N",
      "O", "P", "Q", "R", "S", "T", "U", "V", "W", "X", "Y", "Z",
      "a", "b", "c", "d", "e", "f", "g", "h", "i", "j", "k", "l", "m", "n",
      "o", "p", "q", "r", "s", "t", "u", "v", "w", "x", "y", "z">>

CodeUnit(c) == CHOOSE n \in DOMAIN CodeUnits : CodeUnits[n] = c

\* a < b for strings: the default comparison of Array.prototype.sort
RECURSIVE StringLess(_, _)
StringLess(a, b) ==
    IF b = <<>> THEN FALSE
    ELSE IF a = <<>> THEN TRUE
    ELSE IF a[1] # b[1] THEN CodeUnit(a[1]) < CodeUnit(b[1])
    ELSE StringLess(Tail(a), Tail(b))

\* Array.from(set).sort() of a set of strings
SortedStrings(S) ==
    [p \in 1..Cardinality(S) |->
        CHOOSE t \in S : Cardinality({u \in S : StringLess(u, t)}) = p - 1]

\* Array.prototype.some
AnyWhere(seq, test(_)) == \E p \in DOMAIN seq : test(seq[p])

\* Array.prototype.find, of a sequence that has such an element
FirstWhere(seq, test(_)) == seq[Min({p \in DOMAIN seq : test(seq[p])})]

-----------------------------------------------------------------------------
(* dataProcessor: the cache                                                *)

\* line 41
CacheExpiration == 30 * 1000

\* the time of a session for the sort of the key: 0 when it has no date
TimeOrZero(ses) == IF ses.date # null THEN GetTime(ses.date) ELSE 0

LatestFirstKey(ses) == 0 - TimeOrZero(ses)

\* lines 55-59: the sessions sorted by descending date
LatestFirst(sess) == SortedBy(sess, LatestFirstKey)

\* lines 52-62: generateSessionsCacheKey; 'empty' is <<"empty", 0, 0>>, the
\* key n-t is <<"dated", n, t>> and the key n-nodate is <<"nodate", n, 0>>
GenerateSessionsCacheKey(sess) ==
    IF Len(sess) = 0 THEN <<"empty", 0, 0>>
    ELSE IF LatestFirst(sess)[1].date # null
    THEN <<"dated", Len(sess), GetTime(LatestFirst(sess)[1].date)>>
    ELSE <<"nodate", Len(sess), 0>>

\* the array of the caller with the sort of line 55 made on the array itself
SortedInPlace(sess) == LatestFirst(sess)

\* the array of the caller after a call: the sort of the key is made on a
\* copy, [...sessions], filter returns a new array, and nothing is assigned
\* to a session, an exercise, a set or an effort
Received(sess) == sess

\* an entry that is valid up to and with the moment of expiration
IsCacheValidInclusive(entry, timeNow) ==
    timeNow - entry.timestamp <= CacheExpiration

\* lines 67-70: isCacheValid of an entry that exists
IsCacheValid(entry, timeNow) == timeNow - entry.timestamp < CacheExpiration

\* Map.prototype.set
MapSet(map, key, value) ==
    [k \in DOMAIN map \cup {key} |-> IF k = key THEN value ELSE map[k]]

\* the pattern of the four functions: the value of a valid entry is
\* returned; otherwise the value is computed, and stored unless the function
\* returns early
Served(cache, key, timeNow, early, value) ==
    IF key \in DOMAIN cache /\ IsCacheValid(cache[key], timeNow)
    THEN [path |-> "cached", result |-> cache[key].value, cache |-> cache]
    ELSE IF early
    THEN [path |-> "returned", result |-> value, cache |-> cache]
    ELSE [path |-> "computed", result |-> value,
          cache |-> MapSet(cache, key, [timestamp |-> timeNow, value |-> value])]

-----------------------------------------------------------------------------
(* dataProcessor: what the four functions compute                          *)

\* lines 104-114: the names of the exercises, the empty name left out
NamesIn(sess) ==
    UNION {{sess[a].exercises[b].name : b \in DOMAIN sess[a].exercises} :
              a \in DOMAIN sess}
    \ {<<>>}

\* lines 102-116: getUniqueExercises, computed
UniqueExercises(sess) == SortedStrings(NamesIn(sess))

HasExercise(ses, exerciseName) ==
    \E b \in DOMAIN ses.exercises : ses.exercises[b].name = exerciseName

HasLoadValue(effort) == effort.load # null /\ effort.load.value # 0

\* lines 176-178: a set with an effort of a load above 0
IsLoadSet(set) ==
    \E k \in DOMAIN set.efforts :
        set.efforts[k].load # null /\ set.efforts[k].load.value > 0

HeaviestFirstKey(effort) == 0 - effort.load.value

\* lines 183-185: the efforts of a set that have a load, heaviest first
HeaviestFirst(set) ==
    SortedBy(SelectSeq(set.efforts, HasLoadValue), HeaviestFirstKey)

\* lines 187-192: the data point of the heaviest effort, if there is one
PointOf(date, efforts) ==
    IF efforts = <<>> THEN <<>>
    ELSE <<[date |-> date, weight |-> efforts[1].load.value,
            state |-> efforts[1].result.state]>>

\* lines 172-185: the data point of an exercise, from its first set that has
\* a load
ExercisePoint(date, exercise) ==
    IF Len(exercise.sets) = 0 \/ ~AnyWhere(exercise.sets, IsLoadSet) THEN <<>>
    ELSE PointOf(date, HeaviestFirst(FirstWhere(exercise.sets, IsLoadSet)))

\* lines 168-193: the data point of one session, or none
ProgressPoint(ses, exerciseName) ==
    LET named(ex) == ex.name = exerciseName
    IN  IF ~AnyWhere(ses.exercises, named) THEN <<>>
        ELSE ExercisePoint(ses.date, FirstWhere(ses.exercises, named))

RECURSIVE ProgressPoints(_, _)
ProgressPoints(sess, exerciseName) ==
    IF sess = <<>> THEN <<>>
    ELSE ProgressPoint(sess[1], exerciseName)
         \o ProgressPoints(Tail(sess), exerciseName)

\* lines 157-167: the dated sessions that have the exercise, oldest first
RelevantSessions(sess, exerciseName) ==
    LET relevant(ses) ==
            SafeGetDate(ses.date) # null /\ HasExercise(ses, exerciseName)
    IN  SortedBy(SelectSeq(sess, relevant), TimeOrZero)

\* lines 145-193: extractExerciseProgress, computed
ExerciseProgress(sess, exerciseName) ==
    LET points == IF Len(sess) = 0 \/ exerciseName = <<>> THEN <<>>
                  ELSE ProgressPoints(RelevantSessions(sess, exerciseName),
                                      exerciseName)
    IN  [exerciseName |-> exerciseName,
         dates |-> [p \in DOMAIN points |-> points[p].date],
         weights |-> [p \in DOMAIN points |-> points[p].weight],
         states |-> [p \in DOMAIN points |-> points[p].state]]

\* lines 239-246: the key and the label of the period of a date
PeriodKey(date, interval) ==
    IF interval = "week" THEN <<GetWeekNumber(date), date.year>>
    ELSE <<date.month, date.year>>

PeriodLabel(date, interval) ==
    IF interval = "week" THEN <<"Week", GetWeekNumber(date), date.year>>
    ELSE <<"Month", date.month, date.year>>

\* lines 263-278: the sets of a session whose first effort has the state
CountState(ses, state) ==
    Cardinality(UNION {{<<b, n>> : n \in
                           {n \in DOMAIN ses.exercises[b].sets :
                               /\ Len(ses.exercises[b].sets[n].efforts) > 0
                               /\ ses.exercises[b].sets[n].efforts[1].result.state
                                      = state}} :
                          b \in DOMAIN ses.exercises})

\* lines 234-279: the periods, in the order they were first met, after one
\* more session
PeriodStep(periods, ses, interval) ==
    LET at == {p \in DOMAIN periods :
                  periods[p].key = PeriodKey(ses.date, interval)}
        fresh == [key |-> PeriodKey(ses.date, interval),
                  date |-> ses.date,
                  period |-> PeriodLabel(ses.date, interval),
                  completed |-> 0, partial |-> 0, failed |-> 0]
        with == IF at = {} THEN Append(periods, fresh) ELSE periods
        q == IF at = {} THEN Len(periods) + 1 ELSE Min(at)
    IN  IF SafeGetDate(ses.date) = null THEN periods
        ELSE [with EXCEPT
                 ![q].completed = @ + CountState(ses, "A"),
                 ![q].partial = @ + CountState(ses, "B"),
                 ![q].failed = @ + CountState(ses, "C")]

RECURSIVE PeriodLoop(_, _, _)
PeriodLoop(periods, sess, interval) ==
    IF sess = <<>> THEN periods
    ELSE PeriodLoop(PeriodStep(periods, sess[1], interval), Tail(sess), interval)

PeriodTime(period) == GetTime(period.date)

\* lines 282-284: the values of the map, sorted by date
CompletionStats(sess, interval) ==
    LET sorted == SortedBy(PeriodLoop(<<>>, sess, interval), PeriodTime)
    IN  [p \in DOMAIN sorted |->
            [date |-> sorted[p].date, period |-> sorted[p].period,
             completed |-> sorted[p].completed, partial |-> sorted[p].partial,
             failed |-> sorted[p].failed]]

\* lines 322-337: the volume of an effort, in tenths: weight times count, or
\* weight times a tenth of the seconds
EffortVolume(effort) ==
    LET weight == IF effort.load # null THEN effort.load.value ELSE 0
    IN  IF effort.result.type = "reps" THEN 10 * weight * effort.result.count
        ELSE weight * (IF effort.result.duration.unit = "min"
                       THEN 60 * effort.result.duration.value
                       ELSE effort.result.duration.value)

RECURSIVE SumVolume(_)
SumVolume(efforts) ==
    IF efforts = <<>> THEN 0
    ELSE EffortVolume(efforts[1]) + SumVolume(Tail(efforts))

RECURSIVE SetsVolume(_)
SetsVolume(sets) ==
    IF sets = <<>> THEN 0
    ELSE SumVolume(sets[1].efforts) + SetsVolume(Tail(sets))

\* lines 318-348: the entries of the exercises of one session
RECURSIVE ExerciseVolumes(_, _)
ExerciseVolumes(exercises, date) ==
    IF exercises = <<>> THEN <<>>
    ELSE (IF SetsVolume(exercises[1].sets) > 0
          THEN <<[exercise |-> exercises[1].name, date |-> date,
                  volume |-> SetsVolume(exercises[1].sets)]>>
          ELSE <<>>)
         \o ExerciseVolumes(Tail(exercises), date)

\* lines 314-349: calculateVolumeBySession, computed
RECURSIVE VolumeBySession(_)
VolumeBySession(sess) ==
    IF sess = <<>> THEN <<>>
    ELSE (IF SafeGetDate(sess[1].date) = null THEN <<>>
          ELSE ExerciseVolumes(sess[1].exercises, sess[1].date))
         \o VolumeBySession(Tail(sess))

-----------------------------------------------------------------------------
(* dataProcessor: the calls                                                *)

MaxCalls == 2

MaxNow == 40000

\* the times that pass between two calls, in ms
Waits == {10000, 20000}

\* # T | 20/02/2025 | B (2x8): 5kg A, /
DocA ==
    <<"#", " ", "T", "\n", "2", "0", "/", "0", "2", "/", "2", "0",
      "2", "5", "\n", "B", " ", "(", "2", "x", "8", ")", ":", " ",
      "5", "k", "g", " ", "A", ",", " ", "/">>

\* # T | 20/02/2025 | P (2*1min) | - 5kg C30s | B (2x8): 6kg B
DocB ==
    <<"#", " ", "T", "\n", "2", "0", "/", "0", "2", "/", "2", "0",
      "2", "5", "\n", "P", " ", "(", "2", "*", "1", "m", "i", "n",
      ")", "\n", "-", " ", "5", "k", "g", " ", "C", "3", "0", "s",
      "\n", "B", " ", "(", "2", "x", "8", ")", ":", " ", "6", "k",
      "g", " ", "B">>

\* # U | 05/12/2024 07:30 | B (2x8): 10/5kg C7/5 | - / C7
DocC ==
    <<"#", " ", "U", "\n", "0", "5", "/", "1", "2", "/", "2", "0",
      "2", "4", " ", "0", "7", ":", "3", "0", "\n", "B", " ", "(",
      "2", "x", "8", ")", ":", " ", "1", "0", "/", "5", "k", "g",
      " ", "C", "7", "/", "5", "\n", "-", " ", "/", " ", "C", "7">>

\* B (2x8): 5kg A
DocD ==
    <<"B", " ", "(", "2", "x", "8", ")", ":", " ", "5", "k", "g",
      " ", "A">>

StatExercise(name, target, sets) ==
    [name |-> name, targetSets |-> 2, target |-> target, sets |-> sets]

StatSet(efforts) == SetOf(efforts, undefined)

RepsTarget8 == [type |-> "reps", count |-> 8]

\* the sessions parseContent returns for the four documents
SessionA ==
    [title |-> <<"T">>, date |-> NewDate(2025, 1, 20, 0, 0), comment |-> <<>>,
     exercises |->
        <<StatExercise(<<"B">>, RepsTarget8,
            <<StatSet(<<Effort(Load(5, "kg"), Reps(8, "A"), FALSE)>>),
              StatSet(<<Effort(Load(5, "kg"), Reps(8, "A"), FALSE)>>)>>)>>]

SessionB ==
    [title |-> <<"T">>, date |-> NewDate(2025, 1, 20, 0, 0), comment |-> <<>>,
     exercises |->
        <<StatExercise(<<"P">>,
            [type |-> "time", duration |-> [value |-> 1, unit |-> "min"]],
            <<StatSet(<<Effort(Load(5, "kg"), Time(30, "s", "C"), FALSE)>>)>>),
          StatExercise(<<"B">>, RepsTarget8,
            <<StatSet(<<Effort(Load(6, "kg"), Reps(8, "B"), FALSE)>>)>>)>>]

SessionC ==
    [title |-> <<"U">>, date |-> NewDate(2024, 11, 5, 7, 30), comment |-> <<>>,
     exercises |->
        <<StatExercise(<<"B">>, RepsTarget8,
            <<StatSet(<<Effort(Load(10, "kg"), Reps(7, "C"), FALSE),
                        Effort(Load(5, "kg"), Reps(5, "C"), FALSE)>>),
              StatSet(<<Effort(Load(10, "kg"), Reps(7, "C"), FALSE)>>)>>)>>]

SessionD ==
    [title |-> <<>>, date |-> null, comment |-> <<>>,
     exercises |->
        <<StatExercise(<<"B">>, RepsTarget8,
            <<StatSet(<<Effort(Load(5, "kg"), Reps(8, "A"), FALSE)>>)>>)>>]

\* the four sessions are what the parser returns for the four documents
SessionsAreParsed ==
    /\ <<SessionA>> = ParseContentText(DocA)
    /\ <<SessionB>> = ParseContentText(DocB)
    /\ <<SessionC>> = ParseContentText(DocC)
    /\ <<SessionD>> = ParseContentText(DocD)

\* the arrays the functions are called with: none, one session, another
\* one of the same date, an older session before a newer one, and a session
\* without a date before a dated one
SessionArrays ==
    {<<>>, <<SessionA>>, <<SessionB>>, <<SessionC, SessionA>>,
     <<SessionD, SessionC>>}

ProgressNames == {<<"B">>, <<>>}

Intervals == {"week", "month"}

\* the record of a call: the array passed, the array as the caller has it
\* after the call, the key, the path taken and the value returned
Called(fn, sess, param, key, served) ==
    [fn |-> fn, passed |-> sess, arg |-> Received(sess), param |-> param,
     key |-> key, path |-> served.path, result |-> served.result, at |-> now]

\* the times of the stores of one function, after a call
StoredAfter(times, key, served) ==
    IF served.path = "computed" THEN MapSet(times, key, now) ELSE times

NothingStored ==
    [unique |-> <<>>, progress |-> <<>>, completion |-> <<>>, volume |-> <<>>]

\* lines 91-127
GetUniqueExercises ==
    /\ calls < MaxCalls
    /\ \E sess \in SessionArrays :
          LET key == GenerateSessionsCacheKey(sess)
              served == Served(uniqueExercisesCache, key, now, Len(sess) = 0,
                               UniqueExercises(sess))
          IN  /\ call' = Called("getUniqueExercises", sess, <<>>, key, served)
              /\ uniqueExercisesCache' = served.cache
              /\ stored' = [stored EXCEPT !.unique = StoredAfter(@, key, served)]
    /\ calls' = calls + 1
    /\ UNCHANGED <<exerciseProgressCache, completionStatsCache,
                   volumeBySessionCache, now>>
    /\ UNCHANGED parserVars

\* lines 132-203
ExtractExerciseProgress ==
    /\ calls < MaxCalls
    /\ \E sess \in SessionArrays, exerciseName \in ProgressNames :
          LET key == Append(GenerateSessionsCacheKey(sess), exerciseName)
              served == Served(exerciseProgressCache, key, now,
                               Len(sess) = 0 \/ exerciseName = <<>>,
                               ExerciseProgress(sess, exerciseName))
          IN  /\ call' = Called("extractExerciseProgress", sess, exerciseName,
                                key, served)
              /\ exerciseProgressCache' = served.cache
              /\ stored' = [stored EXCEPT !.progress = StoredAfter(@, key, served)]
    /\ calls' = calls + 1
    /\ UNCHANGED <<uniqueExercisesCache, completionStatsCache,
                   volumeBySessionCache, now>>
    /\ UNCHANGED parserVars

\* lines 208-292
CalculateCompletionStats ==
    /\ calls < MaxCalls
    /\ \E sess \in SessionArrays, interval \in Intervals :
          LET key == Append(GenerateSessionsCacheKey(sess), interval)
              served == Served(completionStatsCache, key, now, Len(sess) = 0,
                               CompletionStats(sess, interval))
          IN  /\ call' = Called("calculateCompletionStats", sess, interval,
                                key, served)
              /\ completionStatsCache' = served.cache
              /\ stored' = [stored EXCEPT !.completion = StoredAfter(@, key, served)]
    /\ calls' = calls + 1
    /\ UNCHANGED <<uniqueExercisesCache, exerciseProgressCache,
                   volumeBySessionCache, now>>
    /\ UNCHANGED parserVars

\* lines 297-359
CalculateVolumeBySession ==
    /\ calls < MaxCalls
    /\ \E sess \in SessionArrays :
          LET key == GenerateSessionsCacheKey(sess)
              served == Served(volumeBySessionCache, key, now, Len(sess) = 0,
                               VolumeBySession(sess))
          IN  /\ call' = Called("calculateVolumeBySession", sess, <<>>, key,
                                served)
              /\ volumeBySessionCache' = served.cache
              /\ stored' = [stored EXCEPT !.volume = StoredAfter(@, key, served)]
    /\ calls' = calls + 1
    /\ UNCHANGED <<uniqueExercisesCache, exerciseProgressCache,
                   completionStatsCache, now>>
    /\ UNCHANGED parserVars

\* lines 442-447
ClearStatisticsCache ==
    /\ call.fn # "clearStatisticsCache"
    /\ uniqueExercisesCache' = <<>>
    /\ exerciseProgressCache' = <<>>
    /\ completionStatsCache' = <<>>
    /\ volumeBySessionCache' = <<>>
    /\ stored' = NothingStored
    /\ call' = [fn |-> "clearStatisticsCache"]
    /\ UNCHANGED <<now, calls>>
    /\ UNCHANGED parserVars

\* time passes between two calls
Tick ==
    /\ \E wait \in Waits : now + wait <= MaxNow /\ now' = now + wait
    /\ UNCHANGED <<uniqueExercisesCache, exerciseProgressCache,
                   completionStatsCache, volumeBySessionCache, call, calls,
                   stored>>
    /\ UNCHANGED parserVars

NextStats ==
    \/ GetUniqueExercises
    \/ ExtractExerciseProgress
    \/ CalculateCompletionStats
    \/ CalculateVolumeBySession
    \/ ClearStatisticsCache
    \/ Tick

\* the parser is idle and the module of the statistics has been loaded
InitStats == Start(<<>>, [layout |-> "statistics"])

SpecStats == InitStats /\ [][NextStats]_vars

-----------------------------------------------------------------------------
(* What the claims are stated with                                         *)

Done == pc = "done"

\* the efforts of the sessions returned, each with the target of its exercise
EffortsOf(ex) ==
    UNION {{[effort |-> ex.sets[c].efforts[d], target |-> ex.target] :
               d \in DOMAIN ex.sets[c].efforts} : c \in DOMAIN ex.sets}

OutEfforts ==
    UNION {UNION {EffortsOf(sessions[a].exercises[b]) :
                     b \in DOMAIN sessions[a].exercises} : a \in DOMAIN sessions}

\* a run of SpecSets has come to its end: one session with one exercise
SetsDone == Done /\ input.layout \in Layouts

TheExercise == sessions[1].exercises[1]

TheSets == TheExercise.sets

\* the target the header of the exercise was written with
WrittenTarget ==
    IF input.target.form = "num"
    THEN [type |-> "reps", count |-> input.target.a]
    ELSE [type |-> "time",
          duration |-> [value |-> input.target.a, unit |-> input.target.form]]

\* the seconds a time expression is written with
WrittenSeconds(v) ==
    CASE v.form = "s" -> v.a
      [] v.form = "min" -> 60 * v.a
      [] v.form = "mins" -> 60 * v.a + v.b

Seconds(duration) ==
    IF duration.unit = "min" THEN 60 * duration.value ELSE duration.value

\* a result holds the value v as it is written: digits are repetitions, or
\* seconds when the result is a time; a time expression is a time
Holds(res, v) ==
    IF v.form = "num"
    THEN IF res.type = "reps" THEN res.count = v.a
         ELSE Seconds(res.duration) = v.a
    ELSE res.type = "time" /\ Seconds(res.duration) = WrittenSeconds(v)

\* the only description of the run, when it has only one
OnlyDesc == input.descs[1]

Single(kind) == SetsDone /\ Len(input.descs) = 1 /\ OnlyDesc.kind = kind

\* effort number k of set number n of the exercise
TheEffort(n, k) == TheSets[n].efforts[k]

\* the markers of the run that stand at set 2 or later
MarkersAt(isMarker(_)) ==
    {n \in 2..Len(input.descs) :
        input.descs[n].kind = "repeat" /\ isMarker(input.descs[n])}

IsBare(d) == d.state = ""

IsExplicitC(d) == d.state = "C" /\ d.value.form # "none"

RECURSIVE SumWritten(_)
\* the sum of the completion values written as digits
SumWritten(vs) ==
    IF vs = <<>> THEN 0
    ELSE (IF vs[1].form = "num" THEN vs[1].a ELSE 0) + SumWritten(Tail(vs))

\* a drop set written with a state letter
DropWithState == Single("drop") /\ OnlyDesc.state # ""

DropShort ==
    /\ DropWithState
    /\ Len(OnlyDesc.values) < Len(OnlyDesc.weights)
    /\ input.target.form = "num"

LastEffort == TheEffort(1, Len(TheSets[1].efforts))

\* a run of SpecSets on several sets has come to its end
SetRun == SetsDone /\ Len(input.descs) >= 2

-----------------------------------------------------------------------------
(* Repeat markers and result kinds                                         *)

\* C1: when parseContent has returned, no effort of any set of any exercise
\* of any session has isRepeat = true.
C1_NoRepeatLeft ==
    Done => \A o \in OutEfforts : o.effort.isRepeat = FALSE

\* C2: every effort of the output has a result of the kind of the target of
\* its exercise: reps under a reps target, time under a time target.
C2_KindAgreement ==
    Done => \A o \in OutEfforts : o.effort.result.type = o.target.type

\* C4: a bare "/" written as set i >= 2 has the load, the state and the
\* value of the first effort of set i-1 as that one stands in the output.
C4_BareRepeatCopies ==
    SetRun =>
        /\ Len(TheSets) = Len(input.descs)
        /\ \A n \in MarkersAt(IsBare) :
              /\ TheEffort(n, 1).load = TheEffort(n - 1, 1).load
              /\ TheEffort(n, 1).result = TheEffort(n - 1, 1).result

\* C5: a marker "/ C<value>" written as set i >= 2 has the load of the first
\* effort of set i-1, the state C and the value written on the marker.
C5_ExplicitRepeat ==
    SetRun =>
        /\ Len(TheSets) = Len(input.descs)
        /\ \A n \in MarkersAt(IsExplicitC) :
              /\ Len(TheSets[n].efforts) = 1
              /\ TheEffort(n, 1).load = TheEffort(n - 1, 1).load
              /\ TheEffort(n, 1).result.state = "C"
              /\ Holds(TheEffort(n, 1).result, input.descs[n].value)

\* the marker overrides a previous set that has another load-less value
C5_Witness ==
    /\ SetRun
    /\ input.target = Value("num", 8, 0)
    /\ Len(input.descs) = 2
    /\ input.descs[1] = Plain(450, TRUE, "A", NoValue)
    /\ input.descs[2] = Repeat("C", Value("num", 7, 0))
    /\ TheEffort(1, 1) = Effort(Load(45, "kg"), Reps(8, "A"), FALSE)
    /\ TheEffort(2, 1) = Effort(Load(45, "kg"), Reps(7, "C"), FALSE)

-----------------------------------------------------------------------------
(* Drop sets                                                               *)

\* C6: a drop set of k resistances and k completion values behind one state
\* letter gives one set of k efforts, effort i with resistance i in kg as its
\* load, completion i as its value and the state letter as its state.
C6_DropSetPairs ==
    DropWithState /\ Len(OnlyDesc.values) = Len(OnlyDesc.weights) =>
        /\ Len(TheSets) = 1
        /\ Len(TheSets[1].efforts) = Len(OnlyDesc.weights)
        /\ \A n \in DOMAIN OnlyDesc.weights :
              /\ TheEffort(1, n).load # null
              /\ TheEffort(1, n).load.unit = "kg"
              /\ 10 * TheEffort(1, n).load.value = OnlyDesc.weights[n]
              /\ TheEffort(1, n).result.state = OnlyDesc.state
              /\ Holds(TheEffort(1, n).result, OnlyDesc.values[n])

-----------------------------------------------------------------------------
(* Plain efforts                                                           *)

\* C8: a plain effort with state A or B has the target as its value, whatever
\* digits or unit follow the letter.
C8_FullStatesTakeTarget ==
    Single("plain") /\ OnlyDesc.state \in {"A", "B"} =>
        /\ Len(TheSets) = 1
        /\ Len(TheSets[1].efforts) = 1
        /\ TheEffort(1, 1).result.state = OnlyDesc.state
        /\ TheEffort(1, 1).result.type = WrittenTarget.type
        /\ IF WrittenTarget.type = "reps"
           THEN TheEffort(1, 1).result.count = WrittenTarget.count
           ELSE TheEffort(1, 1).result.duration = WrittenTarget.duration

\* 45kg B12 under a target of 8 counts 8
C8_Witness ==
    /\ Single("plain")
    /\ OnlyDesc = Plain(450, TRUE, "B", Value("num", 12, 0))
    /\ input.target = Value("num", 8, 0)
    /\ TheEffort(1, 1) = Effort(Load(45, "kg"), Reps(8, "B"), FALSE)

\* C9: a plain effort with state C and a suffix has that value: digits n are
\* n repetitions, or n seconds under a time target; <m>min<s>s, <m>min and
\* <s>s are a duration of m*60+s seconds.
C9_ExplicitValue ==
    Single("plain") /\ OnlyDesc.state = "C" /\ OnlyDesc.value.form # "none" =>
        /\ Len(TheSets) = 1
        /\ Len(TheSets[1].efforts) = 1
        /\ TheEffort(1, 1).result.state = "C"
        /\ OnlyDesc.value.form = "num" =>
              TheEffort(1, 1).result.type = WrittenTarget.type
        /\ Holds(TheEffort(1, 1).result, OnlyDesc.value)

\* 45kg C1min30s is 90 seconds
C9_Witness ==
    /\ Single("plain")
    /\ OnlyDesc = Plain(450, TRUE, "C", Value("mins", 1, 30))
    /\ TheEffort(1, 1).result = Time(90, "s", "C")

-----------------------------------------------------------------------------
(* parseContent and the exercises of a chunk                               *)

\* the fields of a session, and of the exercises in it
IsSession(ses) ==
    /\ DOMAIN ses = {"title", "date", "exercises", "comment"}
    /\ \A b \in DOMAIN ses.exercises :
          DOMAIN ses.exercises[b] = {"name", "targetSets", "target", "sets"}

\* every position of parseContent short of its return has a step to take:
\* the loops are within their bounds and what they work on is there
CanStep ==
    CASE pc = "parseContent" -> TRUE
      [] pc = "contentLines" -> ci <= Len(lines)
      [] pc = "parseSession" -> todo # <<>>
      [] pc = "sessionLines" ->
            /\ si <= Len(sLines)
            /\ session # null
            /\ currentExercise \in 0..Len(session.exercises)
      [] pc = "resolve" -> todo # <<>> /\ session # null
      [] OTHER -> FALSE

\* C3: parseContent has a step to take wherever it has not returned, what it
\* returns is a sequence of sessions, and for the empty string it returns
\* the empty sequence.
C3_Total ==
    /\ ~Done => CanStep
    /\ Done => /\ DOMAIN sessions = 1..Len(sessions)
               /\ \A a \in DOMAIN sessions : IsSession(sessions[a])
    /\ Done /\ content = <<>> => sessions = <<>>

\* a document of two chunks has been parsed into two sessions
C3_Witness ==
    /\ Done
    /\ Len(sessions) = 2
    /\ IsSession(sessions[2])
    /\ sessions[2].exercises # <<>>

IsDefLine(line) == line \in {DefInline, DefBare}

\* the names the definition lines of a chunk are written with, in order
RECURSIVE DefNames(_)
DefNames(ls) ==
    IF ls = <<>> THEN <<>>
    ELSE (IF ls[1] = DefInline THEN <<<<"B">>>>
          ELSE IF ls[1] = DefBare THEN <<<<"P">>>> ELSE <<>>)
         \o DefNames(Tail(ls))

\* parseSession has returned the session of the chunk sLines
Returned == pc \in {"parseSession", "done"} /\ sessions # <<>>

LastSession == sessions[Len(sessions)]

ExerciseNames ==
    [n \in 1..Len(LastSession.exercises) |-> LastSession.exercises[n].name]

\* the definition line j of the chunk has no detail and no list behind it
BareAt(j) ==
    /\ sLines[j] = DefBare
    /\ j = Len(sLines) \/ IsDefLine(sLines[j + 1])

\* C10: the exercises of a chunk are those of its definition lines, one for
\* each and in their order, and a definition line without detail that the
\* chunk end or another definition line follows has no sets.
C10_OnePerDefinition ==
    Returned =>
        /\ ExerciseNames = DefNames(sLines)
        /\ \A j \in DOMAIN sLines :
              BareAt(j) =>
                  LastSession.exercises[Len(DefNames(Sub(sLines, 1, j)))].sets = <<>>

\* P (2*1min) right before B (2x8): 5kg A, / : two exercises, the first empty
C10_Witness ==
    /\ Returned
    /\ \E j \in DOMAIN sLines : BareAt(j) /\ j < Len(sLines) /\ sLines[j + 1] = DefInline
    /\ ExerciseNames = << <<"P">>, <<"B">> >>
    /\ LastSession.exercises[1].sets = <<>>
    /\ Len(LastSession.exercises[2].sets) = 2

-----------------------------------------------------------------------------
(* List items and the exercise they belong to                              *)

\* the definition lines of a chunk, and the one that follows line j
DefAt(ls) == {j \in DOMAIN ls : IsDefLine(ls[j])}

NextDef(ls, j) == Min({k \in DefAt(ls) : k > j} \cup {Len(ls) + 1})

\* element number n of a set of numbers, in increasing order
Nth(S, n) == CHOOSE x \in S : Cardinality({y \in S : y < x}) = n - 1

IsItem(line) == StartsWith(line, <<"-">>)

\* the list-item lines between definition line j and the next one
ItemsAfter(ls, j) == SelectSeq(Sub(ls, j + 1, NextDef(ls, j) - 1), IsItem)

RECURSIVE ItemsSets(_, _)
ItemsSets(items, target) ==
    IF items = <<>> THEN <<>>
    ELSE ListItemSets(Trim(After(items[1], 1)), target)
         \o ItemsSets(Tail(items), target)

\* the exercise of definition line j with the sets of its own list items
OwnExercise(ls, j, e) ==
    ProcessRepeatEfforts([e EXCEPT !.sets = @ \o ItemsSets(ItemsAfter(ls, j), e.target)])

\* C11: every list item adds its sets to the exercise of the nearest
\* definition line before it in the chunk and to no other; what is pending
\* belongs to the current exercise, and nothing pending is lost at the next
\* definition line or at the end of the chunk.
C11_ItemsToTheirExercise ==
    /\ pc = "sessionLines" /\ listItems # <<>> =>
          inListMode /\ currentExercise = Len(session.exercises)
    /\ Returned =>
          /\ Len(LastSession.exercises) = Cardinality(DefAt(sLines))
          /\ \A n \in 1..Cardinality(DefAt(sLines)) :
                LastSession.exercises[n] =
                    OwnExercise(sLines, Nth(DefAt(sLines), n),
                                NewExercise(ExerciseMatch(sLines[Nth(DefAt(sLines), n)])))

\* P (2*1min), - 5kg C6, B (2x8): 5kg A, /, - / C7: one set and three sets
C11_Witness ==
    /\ Returned
    /\ sLines = <<DefBare, <<"-", " ", "5", "k", "g", " ", "C", "6">>,
                  DefInline, <<"-", " ", "/", " ", "C", "7">> >>
    /\ Len(LastSession.exercises[1].sets) = 1
    /\ Len(LastSession.exercises[2].sets) = 3
    /\ LastSession.exercises[2].sets[3].efforts[1] =
           Effort(Load(5, "kg"), Reps(7, "C"), FALSE)

-----------------------------------------------------------------------------
(* The chunks of a document                                                *)

TitleLine(line) == Len(line) >= 2 /\ line[1] = "#" /\ line[2] = " "

DashLine(line) == Len(line) >= 3 /\ \A p \in DOMAIN line : line[p] = "-"

\* the rule of the chunks, on the trimmed lines that are left: a title line
\* closes the chunk and opens one with itself, a line of dashes closes it and
\* is in no chunk, any other line joins the chunk that is open
RECURSIVE RuleChunks(_, _, _)
RuleChunks(ls, chunks, open) ==
    LET closed == IF open # <<>> THEN Append(chunks, open) ELSE chunks
    IN  IF ls = <<>> THEN closed
        ELSE IF TitleLine(Trim(ls[1]))
        THEN RuleChunks(Tail(ls), closed, <<Trim(ls[1])>>)
        ELSE IF DashLine(Trim(ls[1]))
        THEN RuleChunks(Tail(ls), closed, <<>>)
        ELSE RuleChunks(Tail(ls), chunks, Append(open, Trim(ls[1])))

\* the chunks that have a line that is not blank
KeptChunks(text) ==
    SelectSeq(RuleChunks(Split(text, "\n"), <<>>, <<>>),
              LAMBDA chunk : \E p \in DOMAIN chunk : chunk[p] # <<>>)

\* C12: parseContent returns one session for each chunk that has a line
\* that is not blank, in the order of the document, the chunks being those
\* of the rule: session number n is the session of chunk number n.
C12_SessionPerChunk ==
    Done =>
        /\ Len(sessions) = Len(KeptChunks(content))
        /\ \A n \in 1..Len(KeptChunks(content)) :
              sessions[n] = ParseSessionText(Join(KeptChunks(content)[n], "\n"))

\* note, # T, B (2x8): 5kg A, /, ---: the title closes the chunk of the note
C12_Witness ==
    /\ Done
    /\ Len(lines) = 4
    /\ KeptChunks(content) =
           << <<lines[1]>>, <<lines[2], lines[3]>> >>
    /\ TitleLine(lines[2]) /\ DashLine(lines[4])
    /\ Len(sessions) = 2
    /\ sessions[1].exercises = <<>>
    /\ Len(sessions[2].exercises) = 1

-----------------------------------------------------------------------------
(* Lines that are not recognized                                           *)

\* a line that is not blank and is no title, date, separator, definition or
\* list item
Unrecognized(line) == line = <<"n", "o", "t", "e">>

\* the sequence without its element number p
Without(ls, p) == Sub(ls, 1, p - 1) \o Sub(ls, p + 1, Len(ls))

\* C13: a line that is not recognized changes nothing: the document gives the
\* sessions that it gives without that line, whatever the place of the line.
C13_UnrecognizedDropped ==
    Done =>
        \A p \in DOMAIN lines :
            Unrecognized(lines[p]) =>
                sessions = ParseContentText(Join(Without(lines, p), "\n"))

-----------------------------------------------------------------------------
(* The title and the date of a session                                     *)

\* C14: the document "# " and a newline gives exactly one session, and the
\* title of that session is the empty string, not an absent value.
C14_EmptyTitle ==
    Done /\ content = <<"#", " ", "\n">> =>
        /\ Len(sessions) = 1
        /\ sessions[1].title = <<>>
        /\ sessions[1].title \notin {undefined, null}

C14_Witness ==
    /\ Done
    /\ content = <<"#", " ", "\n">>
    /\ sessions = <<[title |-> <<>>, date |-> null, exercises |-> <<>>,
                     comment |-> <<>>]>>

IsDigits(s) == s # <<>> /\ \A p \in DOMAIN s : s[p] \in Digit

\* DD/MM/YYYY
WrittenDay(line) ==
    /\ Len(line) >= 10
    /\ IsDigits(Sub(line, 1, 2)) /\ line[3] = "/"
    /\ IsDigits(Sub(line, 4, 5)) /\ line[6] = "/"
    /\ IsDigits(Sub(line, 7, 10))

\* DD/MM/YYYY HH:MM
WrittenTime(line) ==
    /\ WrittenDay(line) /\ Len(line) = 16
    /\ line[11] = " " /\ IsDigits(Sub(line, 12, 13))
    /\ line[14] = ":" /\ IsDigits(Sub(line, 15, 16))

WrittenDateLine(line) == (WrittenDay(line) /\ Len(line) = 10) \/ WrittenTime(line)

DateLinesAt(ls) == {p \in DOMAIN ls : WrittenDateLine(ls[p])}

FirstDateLine(ls) == ls[Min(DateLinesAt(ls))]

\* the date as it is written on a date line, the month counted from 0
AsWritten(line) ==
    [year |-> DigitsVal(Sub(line, 7, 10)),
     month |-> DigitsVal(Sub(line, 4, 5)) - 1,
     day |-> DigitsVal(Sub(line, 1, 2)),
     hours |-> IF WrittenTime(line) THEN DigitsVal(Sub(line, 12, 13)) ELSE 0,
     minutes |-> IF WrittenTime(line) THEN DigitsVal(Sub(line, 15, 16)) ELSE 0]

\* C15: the date of a session is the one written on the first date line of
\* its chunk: year, day, hours and minutes as written, the month less one,
\* hours and minutes 0 when no time is written; later date lines change
\* nothing.
C15_DateAsWritten ==
    Returned /\ DateLinesAt(sLines) # {} =>
        LastSession.date = AsWritten(FirstDateLine(sLines))

MonthDays(y, m) ==
    IF m = 1
    THEN (IF (y % 4 = 0 /\ y % 100 # 0) \/ y % 400 = 0 THEN 29 ELSE 28)
    ELSE IF m \in {3, 5, 8, 10} THEN 30 ELSE 31

ValidDate(d) ==
    /\ d.month \in 0..11
    /\ d.day \in 1..MonthDays(d.year, d.month)
    /\ d.hours \in 0..23
    /\ d.minutes \in 0..59

\* C16: the date of a session is null when its chunk has no date line, and
\* otherwise a date of the calendar: the month is one of the twelve, the day
\* one of that month, the hours within 0..23 and the minutes within 0..59.
C16_DateValidOrNull ==
    Returned =>
        IF DateLinesAt(sLines) = {} THEN LastSession.date = null
        ELSE LastSession.date # null /\ ValidDate(LastSession.date)

\* 31/02/2025 is stored as the 3rd of March 2025
C16_Witness ==
    /\ Returned
    /\ DateLinesAt(sLines) # {}
    /\ AsWritten(FirstDateLine(sLines)) =
           [year |-> 2025, month |-> 1, day |-> 31, hours |-> 0, minutes |-> 0]
    /\ LastSession.date =
           [year |-> 2025, month |-> 2, day |-> 3, hours |-> 0, minutes |-> 0]

-----------------------------------------------------------------------------
(* Definition lines: the separator and the target                          *)

\* a run of SpecDefs has come to its end
DefsDone == Done /\ input.layout = "definition"

\* C17: E (3<sep><target>) is an exercise definition for each of the
\* separators x, X and *: the document has one session with the exercise E
\* of 3 sets.
C17_SeparatorAnyCase ==
    DefsDone =>
        /\ Len(sessions) = 1
        /\ Len(sessions[1].exercises) = 1
        /\ sessions[1].exercises[1].name = <<"E">>
        /\ sessions[1].exercises[1].targetSets = 3

\* C18: the target is a time target with the written value and unit exactly
\* when it is written <integer>min or <integer>s; any other text is a reps
\* target that counts the integer written, and 0 when the text is no integer.
C18_TargetParsed ==
    DefsDone /\ input.separator # "X" =>
        /\ Len(sessions) = 1
        /\ Len(sessions[1].exercises) = 1
        /\ sessions[1].exercises[1].target =
              IF input.target.kind = "time"
              THEN [type |-> "time",
                    duration |-> [value |-> input.target.value,
                                  unit |-> input.target.unit]]
              ELSE [type |-> "reps", count |-> input.target.value]

-----------------------------------------------------------------------------
(* The comment of a line of several sets                                   *)

\* a run of SpecComments has come to its end
CommentsDone == Done /\ input.layout = "comment"

\* C19: when a line of several sets carries a quoted comment, the last set
\* of the line has the comment and no other set has one, wherever in the
\* line the comment is written.
C19_CommentOnLastSet ==
    CommentsDone =>
        /\ Len(TheSets) = Len(input.descs)
        /\ TheSets[Len(TheSets)].comment = CommentText
        /\ \A n \in 1..(Len(TheSets) - 1) : TheSets[n].comment = undefined

-----------------------------------------------------------------------------
(* A session written back and parsed again                                 *)

\* a run of SpecHead has come to its end
HeadDone == Done /\ input.layout = "head"

\* the definitions of a session: names, targetSets and targets, in order
Outline(ses) ==
    [n \in DOMAIN ses.exercises |->
        [name |-> ses.exercises[n].name,
         targetSets |-> ses.exercises[n].targetSets,
         target |-> ses.exercises[n].target]]

\* the day of a date, at 00:00
DayOf(date) == [date EXCEPT !.hours = 0, !.minutes = 0]

Reparsed(ses, options, today) ==
    ParseContentText(StringifySession(ses, options, today))

-----------------------------------------------------------------------------
(* Repeat markers with a state and no value                                *)

IsCNoValue(d) == d.state = "C" /\ d.value.form = "none"

\* the count or the duration value of a result
ValueOf(res) == IF res.type = "reps" THEN res.count ELSE res.duration.value

\* C22: a marker "/ C" written as set i >= 2 has the state C, the value 0 and
\* the load of the first effort of set i-1; it never takes a count or a
\* duration from elsewhere.
C22_RepeatCNoValue ==
    SetRun =>
        /\ Len(TheSets) = Len(input.descs)
        /\ \A n \in MarkersAt(IsCNoValue) :
              /\ Len(TheSets[n].efforts) = 1
              /\ TheEffort(n, 1).load = TheEffort(n - 1, 1).load
              /\ TheEffort(n, 1).result.state = "C"
              /\ ValueOf(TheEffort(n, 1).result) = 0

-----------------------------------------------------------------------------
(* Sets and their efforts                                                  *)

\* C26: every set of every exercise of the output of parseContent has at
\* least one effort; a set description that yields no effort yields no set.
C26_NoEmptySet ==
    Done =>
        \A s \in DOMAIN sessions :
            \A e \in DOMAIN sessions[s].exercises :
                \A n \in DOMAIN sessions[s].exercises[e].sets :
                    Len(sessions[s].exercises[e].sets[n].efforts) >= 1

\* a description that yields no effort, /C7, has been parsed and its exercise
\* has no set
C26_Witness ==
    /\ Single("other")
    /\ OnlyDesc.text = <<"/", "C", "7">>
    /\ Len(sessions) = 1
    /\ Len(sessions[1].exercises) = 1
    /\ TheSets = <<>>

-----------------------------------------------------------------------------
(* Where a repeat flag can stand                                           *)

\* in the exercises given, a repeat-flagged effort is the only effort of its
\* set, and the set before its set, when there is one, has an effort
RepeatsAlone(exercises) ==
    \A e \in DOMAIN exercises :
        \A n \in DOMAIN exercises[e].sets :
            \A k \in DOMAIN exercises[e].sets[n].efforts :
                exercises[e].sets[n].efforts[k].isRepeat =>
                    /\ Len(exercises[e].sets[n].efforts) = 1
                    /\ n >= 2 => Len(exercises[e].sets[n - 1].efforts) >= 1

\* in the exercises given, a repeat-flagged effort stands in the first set
RepeatsFirst(exercises) ==
    \A e \in DOMAIN exercises :
        \A n \in DOMAIN exercises[e].sets :
            \A k \in DOMAIN exercises[e].sets[n].efforts :
                exercises[e].sets[n].efforts[k].isRepeat => n = 1

\* C27: while a chunk is parsed, a repeat-flagged effort is the only effort
\* of its set and the set before it has a first effort; in the sessions
\* returned, a repeat-flagged effort stands only in the first set of its
\* exercise, the resolver having cleared the flag in every later set.
C27_RepeatOnlyInFirstSet ==
    /\ pc \in {"sessionLines", "resolve"} => RepeatsAlone(session.exercises)
    /\ \A s \in DOMAIN sessions :
          RepeatsAlone(sessions[s].exercises) /\ RepeatsFirst(sessions[s].exercises)

\* a marker in the first set has kept its flag and a marker in the second
\* set has lost it
C27_Witness ==
    /\ SetRun
    /\ input.descs[1].kind = "repeat"
    /\ input.descs[2].kind = "repeat"
    /\ Len(TheSets) >= 2
    /\ TheEffort(1, 1).isRepeat = TRUE
    /\ TheEffort(2, 1).isRepeat = FALSE

-----------------------------------------------------------------------------
(* What the repeat resolver leaves alone                                   *)

\* the exercises after the pass are the exercises before it, the efforts
\* that were repeat-flagged apart
SameButRepeats(before, after) ==
    /\ Len(after) = Len(before)
    /\ \A e \in DOMAIN before :
          /\ after[e].name = before[e].name
          /\ after[e].targetSets = before[e].targetSets
          /\ after[e].target = before[e].target
          /\ Len(after[e].sets) = Len(before[e].sets)
          /\ \A n \in DOMAIN before[e].sets :
                /\ after[e].sets[n].comment = before[e].sets[n].comment
                /\ Len(after[e].sets[n].efforts) = Len(before[e].sets[n].efforts)
                /\ \A k \in DOMAIN before[e].sets[n].efforts :
                      ~before[e].sets[n].efforts[k].isRepeat =>
                          after[e].sets[n].efforts[k] = before[e].sets[n].efforts[k]

\* C28: the pass of the repeat resolver over a session keeps the number and
\* the order of the exercises, of their sets and of the efforts of each set,
\* the comments of the sets, and every effort that is not repeat-flagged;
\* title and date of the session are kept as well.
C28_ResolverFrame ==
    [][pc = "resolve" =>
          /\ SameButRepeats(session.exercises, session'.exercises)
          /\ session'.title = session.title
          /\ session'.date = session.date]_vars

\* the resolver has passed over a commented set that follows a marker and
\* over a marker that follows a set of two efforts
C28_Witness ==
    /\ CommentsDone
    /\ Len(input.descs) = 3
    /\ input.descs[1].kind = "drop"
    /\ input.descs[2].kind = "repeat"
    /\ input.descs[3].kind = "plain"
    /\ Len(TheSets) = 3
    /\ TheSets[3].comment = CommentText
    /\ Len(TheSets[1].efforts) = 2
    /\ TheEffort(2, 1).isRepeat = FALSE
    /\ TheEffort(2, 1).load = TheEffort(1, 1).load

-----------------------------------------------------------------------------
(* The order of the sets of an exercise                                    *)

\* a run of SpecOrder has come to its end
OrderDone == Done /\ input.layout = "order"

\* C29: the sets of an exercise stand in the order their descriptions are
\* written in: the inline ones from left to right, then the list items line
\* by line, the pieces of one item from left to right; each description
\* gives one set, whether its item is flushed at a line that is passed over,
\* at the next definition or at the end of the chunk.
C29_SetsInDocumentOrder ==
    OrderDone =>
        /\ Len(TheSets) = Len(input.placements)
        /\ \A n \in DOMAIN input.placements :
              TheSets[n].efforts = <<Effort(Load(10 * n, "kg"), Reps(n, "C"), FALSE)>>

\* one inline set, an item of two pieces and an item behind a line that is
\* passed over, with another definition after them
C29_Witness ==
    /\ OrderDone
    /\ input.placements = <<"same", "item", "same", "noted">>
    /\ input.ending = <<DefBare>>
    /\ Len(sessions[1].exercises) = 2
    /\ Len(TheSets) = 4
    /\ TheEffort(4, 1).load = Load(40, "kg")

-----------------------------------------------------------------------------
(* The end of the line loop of parseSession                                *)

\* C30: the line loop of parseSession makes at most as many iterations as
\* the chunk has lines: no line is visited a second time, the index never
\* passes the end, and a loop that is over has consumed every line.
C30_LoopBounded ==
    pc \in {"sessionLines", "resolve"} =>
        /\ visits <= Len(sLines)
        /\ si <= Len(sLines)
        /\ pc = "resolve" => si = Len(sLines)

\* the loop is over on a chunk in which a line that is neither definition
\* nor list item was met in list mode, the place of the step back
C30_Witness ==
    /\ pc = "resolve"
    /\ sLines = <<DefInline, <<"-", " ", "5", "k", "g", " ", "C", "6">>,
                  NoteLine, DefBare>>
    /\ visits = 4
    /\ Len(session.exercises) = 2

-----------------------------------------------------------------------------
(* The statistics and their cache                                          *)

StatisticsFunctions ==
    {"getUniqueExercises", "extractExerciseProgress",
     "calculateCompletionStats", "calculateVolumeBySession"}

\* the last thing that happened is a call of a statistics function
IsCall == call.fn \in StatisticsFunctions

NamesOf(sess) ==
    {name \in UNION {{sess[a].exercises[b].name : b \in DOMAIN sess[a].exercises} :
                        a \in DOMAIN sess} : name # <<>>}

\* C24: whatever calls were made before, getUniqueExercises returns the
\* distinct non-empty exercise names of the array it is called with, and
\* nothing else, in ascending order.
C24_UniqueNamesOfArgument ==
    call.fn = "getUniqueExercises" =>
        /\ {call.result[p] : p \in DOMAIN call.result} = NamesOf(call.passed)
        /\ \A p, q \in DOMAIN call.result :
              p < q => StringLess(call.result[p], call.result[q])

\* the cache of the function of the last call, and the times of its stores
CacheOfCall ==
    CASE call.fn = "getUniqueExercises" -> uniqueExercisesCache
      [] call.fn = "extractExerciseProgress" -> exerciseProgressCache
      [] call.fn = "calculateCompletionStats" -> completionStatsCache
      [] call.fn = "calculateVolumeBySession" -> volumeBySessionCache

StoredOfCall ==
    CASE call.fn = "getUniqueExercises" -> stored.unique
      [] call.fn = "extractExerciseProgress" -> stored.progress
      [] call.fn = "calculateCompletionStats" -> stored.completion
      [] call.fn = "calculateVolumeBySession" -> stored.volume

\* what the function of the last call computes from its arguments
ComputedOfCall ==
    CASE call.fn = "getUniqueExercises" -> UniqueExercises(call.passed)
      [] call.fn = "extractExerciseProgress" ->
            ExerciseProgress(call.passed, call.param)
      [] call.fn = "calculateCompletionStats" ->
            CompletionStats(call.passed, call.param)
      [] call.fn = "calculateVolumeBySession" -> VolumeBySession(call.passed)

\* the last call returned what was stored under its key, and that was stored
\* less than 30000 ms before the call, with no clearing in between
ServedFromStore ==
    /\ call.key \in DOMAIN StoredOfCall
    /\ call.at - StoredOfCall[call.key] < 30000
    /\ call.key \in DOMAIN CacheOfCall
    /\ call.result = CacheOfCall[call.key].value

\* the last call computed its result from its arguments and stored it
ComputedAndStored ==
    /\ call.result = ComputedOfCall
    /\ call.key \in DOMAIN CacheOfCall
    /\ CacheOfCall[call.key] = [timestamp |-> call.at, value |-> call.result]
    /\ call.key \in DOMAIN StoredOfCall
    /\ StoredOfCall[call.key] = call.at

\* the last call was given nothing to compute from: no session, or no name
NothingToCompute ==
    \/ Len(call.passed) = 0
    \/ call.fn = "extractExerciseProgress" /\ call.param = <<>>

\* C25 as it is written: a call returns a stored result only if one was
\* stored under its key less than 30000 ms before and the caches were not
\* cleared since; every other call computes from its arguments and stores
\* the result.
C25_StoredOrRecomputed ==
    IsCall =>
        /\ call.path = "cached" => ServedFromStore
        /\ call.path # "cached" => ComputedAndStored

\* C25, the early returns apart: a call returns a stored result only if one
\* was stored under its key less than 30000 ms before and the caches were
\* not cleared since; every other call computes from its arguments, and
\* stores the result unless it was given no session (or no exercise name),
\* in which case it returns the empty result and stores nothing.
C25_StoredOrRecomputedUnlessEmpty ==
    IsCall =>
        /\ call.path = "cached" => ServedFromStore
        /\ call.path = "computed" => ComputedAndStored /\ ~NothingToCompute
        /\ call.path = "returned" =>
              /\ NothingToCompute
              /\ call.result = ComputedOfCall
              /\ call.key \notin DOMAIN CacheOfCall

\* a result stored at 0 is 30000 ms old when the function is called again
\* with the same key: the call computes again and stores at 30000
C25_Witness ==
    /\ call.fn = "calculateCompletionStats"
    /\ call.passed = <<SessionC, SessionA>>
    /\ calls = 2
    /\ call.at = 30000
    /\ call.path = "computed"
    /\ stored.completion[call.key] = 30000
    /\ completionStatsCache[call.key].timestamp = 30000

====
